---- MODULE Spec2Model ----
(***************************************************************************)
(* Affective state and memory lifecycle engine of Dang Dang:               *)
(*   - GrowthManager      (src/core/growth_manager.py)                     *)
(*   - MemoryManager      (src/memory.py)                                  *)
(*   - MemoryDecayer      (src/core/memory_decay.py)                       *)
(*   - DailyConsolidator  (src/core/consolidation.py)                      *)
(*   - DangDangBrain      (src/cognition.py)                               *)
(*                                                                         *)
(* Units.  Wall-clock time `now` is counted in minutes; a calendar day is   *)
(* now \div 1440.  NUMERIC(3,2) columns are held in hundredths, values     *)
(* computed in Python floats before storing are held in thousandths.       *)
(***************************************************************************)
EXTENDS Integers, Sequences, FiniteSets, TLC

VARIABLES
    now,            \* wall clock, minutes
    ticks,          \* number of clock advances below a day made so far
    rel,            \* the relationship_state row of user_id 'user'
    coreMemories,   \* rows of core_memories (their related_level)
    growthOut,      \* what the last process_interaction returned, and its locals
    calls,          \* number of process_interaction calls made so far
    botState,       \* the bot_state row (id = 1)
    brainOut,       \* what the last pre_process_intent returned
    mem,            \* episodic_memory: id -> row
    nextMemId,      \* the next value of episodic_memory's SERIAL id
    lastDecayTs,    \* memory_meta['last_decay_ts']
    messages,       \* the messages table, in id order
    sessions,       \* conversation_sessions, indexed by session_id
    currentSessionId, \* SessionManager.current_session_id (0 is None)
    dailySummaries, \* daily_summaries rows
    patterns,       \* user_patterns rows
    consOut,        \* what the last consolidate_day returned
    recallOut,      \* what the last get_memories_by_context returned, and its inputs
    boundaryOut,    \* the last should_start_new_session call: its argument and result
    decayOut,       \* the last decay_memories call: whether it made a pass
    guardOut,       \* the last should_consolidate_yesterday call: its day and result
    profile,        \* the profile table: key -> value and confidence
    profileOut,     \* the last update_profile call: its arguments and number
    selfImage,      \* the self_image table: trait -> strength
    threads,        \* the update_self_image calls in flight, one per archiving thread
    archOut,        \* how the last post_process_archiving / evaluate_response ended
    turnOut,        \* what the last send_message returned
    spawned,        \* the background threads started and not yet run
    responseQuality, \* number of rows of response_quality
    waitingState,   \* GeminiFriend.waiting_state
    lastActivityTime, \* GeminiFriend.last_activity_time
    savers,         \* the save_message calls in flight, one per calling thread
    decayers        \* the decay_memories calls in flight, one per archiving thread

clockVars == <<now, ticks>>
growthVars == <<rel, coreMemories, growthOut, calls>>
stateVars == <<botState, brainOut>>
memVars == <<mem, nextMemId, lastDecayTs>>
chatVars == <<messages, sessions, currentSessionId>>
consVars == <<dailySummaries, patterns, consOut>>
recallVars == <<recallOut>>
boundaryVars == <<boundaryOut>>
bgVars == <<decayOut, guardOut, profile, profileOut, selfImage, threads, archOut,
           turnOut, spawned, responseQuality>>
threadVars == <<waitingState, lastActivityTime, savers, decayers>>
vars == <<now, ticks, rel, coreMemories, growthOut, calls, botState, brainOut,
          mem, nextMemId, lastDecayTs, messages, sessions, currentSessionId,
          dailySummaries, patterns, consOut, recallOut,
          boundaryOut, decayOut, guardOut, profile, profileOut, selfImage,
          threads, archOut, turnOut, spawned, responseQuality,
          waitingState, lastActivityTime, savers, decayers>>

----------------------------------------------------------------------------
(* Bounds of the model *)

MaxDay == 7
MaxTicks == 2
MaxCalls == 4
MaxFnLevel == 9
MaxRows == 2
MaxAccess == 1
MaxMessages == 1
MaxChat == 3
MaxSessions == 3
MaxTalk == 2
MaxReports == 3
MaxLearn == 3
MaxTurns == 2
MaxHeartbeat == 36
MaxBeatMessages == 3
MaxSaved == 4

(* Program constants *)

MinutesPerDay == 1440
MinutesPerHour == 60
base_xp == 100

\* SQL NULL for a date or a timestamp (real ones are >= 0)
NULL == 0 - 1

DateOf(t) == t \div MinutesPerDay

Today == DateOf(now)

Max(a, b) == IF a >= b THEN a ELSE b
Min(a, b) == IF a <= b THEN a ELSE b

RECURSIVE Pow(_, _)
Pow(b, e) == IF e = 0 THEN 1 ELSE b * Pow(b, e - 1)

----------------------------------------------------------------------------
(* Clock *)

\* Midnight passes
NextDay ==
    /\ Today < MaxDay
    /\ now' = (Today + 1) * MinutesPerDay
    /\ UNCHANGED ticks

\* dt minutes pass
Tick(dt) ==
    /\ ticks < MaxTicks
    /\ ticks' = ticks + 1
    /\ now' = now + dt

----------------------------------------------------------------------------
(* GrowthManager *)

\* (mutant) a gate table that never holds a level back
time_gates_open(next_level) == 0

\* self.time_gates.get(next_level, 0)
time_gates(next_level) ==
    CASE next_level = 1 -> 0
      [] next_level = 2 -> 0
      [] next_level = 3 -> 1
      [] next_level = 4 -> 3
      [] next_level = 5 -> 7
      [] next_level = 10 -> 30
      [] OTHER -> 0

\* (mutant) round() in place of int()
GetXpRounded(level) ==
    (2 * base_xp * Pow(3, level - 1) + Pow(2, level - 1)) \div Pow(2, level)

\* int(self.base_xp * (1.5 ** (level - 1))): 1.5^k = 3^k / 2^k is exact in a
\* double for the levels of the model, and int() truncates.
GetXpForNextLevel(level) ==
    (base_xp * Pow(3, level - 1)) \div Pow(2, level - 1)

\* (mutant) the bands tested from the outside in: -0.05 is reached
TrustDeltaByBand(xp_change) ==
    IF xp_change >= 5 THEN 20
    ELSE IF xp_change > 0 THEN 5
    ELSE IF xp_change <= 0 - 5 THEN 0 - 50
    ELSE IF xp_change < 0 THEN 0 - 10
    ELSE 0

\* trust_delta of step 3, in thousandths (0.02, 0.005, -0.01, -0.05)
TrustDelta(xp_change) ==
    IF xp_change >= 5 THEN 20
    ELSE IF xp_change > 0 THEN 5
    ELSE IF xp_change < 0 THEN 0 - 10
    ELSE IF xp_change <= 0 - 5 THEN 0 - 50
    ELSE 0

\* A float written to a NUMERIC(3,2) column: rounded half away from zero to
\* hundredths.  m is the Python value in thousandths.  The one float sum of the
\* model that does not land on its decimal value is 0.03 + 0.005, which is
\* 0.034999999999999996 and is stored as 0.03.
StoreNumeric(m) ==
    IF m = 35 THEN 3
    ELSE IF m >= 0 THEN (m + 5) \div 10
    ELSE 0 - ((5 - m) \div 10)

\* max(0.0, min(1.0, float(state['trust_score']) + trust_delta)), then stored
NewTrust(trust_score, trust_delta) ==
    StoreNumeric(Max(0, Min(1000, trust_score * 10 + trust_delta)))

\* (mutant) every call counts as a new day
UpdateDaysActiveAlways(r) ==
    [r EXCEPT !.days_active = @ + 1, !.last_interaction_date = Today]

\* _update_days_active: the row after the call
UpdateDaysActive(r) ==
    IF r.last_interaction_date # NULL /\ Today > r.last_interaction_date
    THEN [r EXCEPT !.days_active = @ + 1, !.last_interaction_date = Today]
    ELSE r

\* (mutant) the XP counter is not floored
NewXpUnfloored(current_xp, xp_change) == current_xp + xp_change

\* new_xp = max(0, state['current_xp'] + xp_change)
NewXp(current_xp, xp_change) == Max(0, current_xp + xp_change)

\* (mutant) the level-up check without the time gate
LevelUpByXp(level, new_xp, days_active) ==
    new_xp >= GetXpForNextLevel(level)

\* The level-up check (step 5): does the level rise?
LevelUp(level, new_xp, days_active) ==
    /\ new_xp >= GetXpForNextLevel(level)
    /\ days_active >= time_gates(level + 1)

\* (mutant) the XP counter restarts from zero on a level-up
ConsumeXpReset(new_xp, xp_needed) == 0

\* new_xp = new_xp - xp_needed on a level-up
ConsumeXp(new_xp, xp_needed) == new_xp - xp_needed

\* (mutant) a level-up takes two levels at once
CurrentLevelSkipping(level, up) == IF up THEN level + 2 ELSE level

\* (mutant) current_level starts from the default level, not from the row
CurrentLevelFromDefault(level, up) == IF up THEN level + 1 ELSE 1

\* current_level = state['level'], and current_level += 1 on a level-up
CurrentLevel(level, up) == IF up THEN level + 1 ELSE level

EmptyOut == [empty |-> TRUE, xp_gained |-> 0, level_up |-> FALSE,
             current_level |-> 0, trust_change |-> 0, sentiment |-> "",
             xp_needed |-> 0, new_xp |-> 0, level_before |-> 0,
             days_active |-> 0, is_core_memory |-> FALSE, judge_ok |-> TRUE,
             words |-> 0]

\* (mutant) the fallback verdict does not look at the message
JudgeInteractionFlat(words, response) ==
    IF response.ok THEN response.verdict
    ELSE [numeric |-> TRUE, xp_change |-> 1, sentiment |-> "Neutral",
          is_core_memory |-> FALSE]

\* judge_interaction(user_content, context): the parsed JSON of the model's
\* answer; when the call or the parsing raises, the fallback by length.
\* words is len(user_content.split()).
JudgeInteraction(words, response) ==
    IF response.ok THEN response.verdict
    ELSE [numeric |-> TRUE, xp_change |-> IF words > 10 THEN 2 ELSE 1,
          sentiment |-> "Neutral", is_core_memory |-> FALSE]

\* process_interaction(user_content, context).  response is what the model
\* answered: ok says whether the call and json.loads went through, numeric
\* whether xp_change is a number (the verdict is not validated).
ProcessInteraction(words, response) ==
    LET judgment == JudgeInteraction(words, response)
        r1 == UpdateDaysActive(rel)
        xp_change == judgment.xp_change
        state == r1
        new_xp == NewXp(state.current_xp, xp_change)
        new_total_xp == state.total_xp + Max(0, xp_change)
        new_trust == NewTrust(state.trust_score, TrustDelta(xp_change))
        xp_needed == GetXpForNextLevel(state.level)
        up == LevelUp(state.level, new_xp, state.days_active)
        current_level == CurrentLevel(state.level, up)
        final_xp == IF up THEN ConsumeXp(new_xp, xp_needed) ELSE new_xp
    IN
    /\ calls < MaxCalls
    /\ calls' = calls + 1
    /\ IF ~judgment.numeric
       THEN \* comparing a non-number raises; the outer except returns {}
            /\ rel' = r1
            /\ growthOut' = EmptyOut
       ELSE /\ rel' = [r1 EXCEPT !.current_xp = final_xp,
                                 !.total_xp = new_total_xp,
                                 !.trust_score = new_trust,
                                 !.level = current_level]
            /\ growthOut' = [empty |-> FALSE, xp_gained |-> xp_change,
                             level_up |-> up, current_level |-> current_level,
                             trust_change |-> TrustDelta(xp_change),
                             sentiment |-> judgment.sentiment,
                             xp_needed |-> xp_needed, new_xp |-> new_xp,
                             level_before |-> state.level,
                             days_active |-> state.days_active,
                             is_core_memory |-> judgment.is_core_memory,
                             judge_ok |-> response.ok, words |-> words]
    \* step "Handle Core Memories": the INSERT's parameters read state['level']
    \* before state is assigned (line 72 before line 79); the UnboundLocalError
    \* is caught by the inner except and no row is written.
    /\ coreMemories' = coreMemories

\* Verdicts of the Judge: in-contract values, the fallback (1 or 2), a large
\* value (the code applies no range check) and a non-numeric xp_change.
XpChanges == {0 - 5, 0, 2, 10, 200}

Judgments ==
    [numeric : {TRUE}, xp_change : XpChanges, is_core_memory : BOOLEAN,
     sentiment : {"Positive"}]
    \cup [numeric : {FALSE}, xp_change : {0}, is_core_memory : {FALSE},
          sentiment : {"Positive"}]

\* Answers of the model: a verdict, or a failed call / unparseable text
JudgeResponses ==
    [ok : {TRUE},
     verdict : [numeric : {TRUE}, xp_change : {0 - 5, 10},
                is_core_memory : BOOLEAN, sentiment : {"Positive"}]]
    \cup {[ok |-> FALSE,
           verdict |-> [numeric |-> FALSE, xp_change |-> 0,
                        is_core_memory |-> FALSE, sentiment |-> ""]]}

\* len(user_content.split()) of the messages
WordCounts == {10, 11}

\* The relationship_state row the migration inserts (column defaults)
FreshRel == [level |-> 1, current_xp |-> 0, total_xp |-> 0, trust_score |-> 50,
             days_active |-> 1, last_interaction_date |-> 0]

----------------------------------------------------------------------------
(* StateStore: MemoryManager's bot_state and DangDangBrain's writes to it *)

\* The row init_db inserts
FreshBotState == [valence |-> 20, energy |-> 80, bond |-> 30,
                  last_reflection |-> "default"]

FallbackOut == [micro_mood |-> "fallback", sensitivity |-> 1]

\* A NUMERIC(3,2) column holds at most 9.99 in magnitude; a value that rounds
\* beyond it makes the statement fail ("numeric field overflow").
FitsNumeric(m) == StoreNumeric(m) <= 999 /\ StoreNumeric(m) >= 0 - 999

\* update_bot_state(v, e, b, r): the UPDATE of the three values as given (in
\* thousandths), with last_reflection when r is given; a failing statement is
\* logged and nothing is written.
UpdateBotState(v, e, b, r) ==
    IF FitsNumeric(v) /\ FitsNumeric(e) /\ FitsNumeric(b)
    THEN botState' = [valence |-> StoreNumeric(v),
                      energy |-> StoreNumeric(e),
                      bond |-> StoreNumeric(b),
                      last_reflection |-> IF r = "None"
                                          THEN botState.last_reflection
                                          ELSE r]
    ELSE botState' = botState

\* get_bot_state(): the row as floats, in thousandths
GetBotState == [v |-> botState.valence * 10, e |-> botState.energy * 10,
                b |-> botState.bond * 10]

\* max(lo, min(hi, x))
Clamp(lo, hi, x) == Max(lo, Min(hi, x))

\* pre_process_intent: data is the Judge's JSON (deltas in thousandths);
\* data.ok is false when the call or the parsing raised.
PreProcessIntent(data) ==
    LET s == GetBotState
        big == data.valence_change > 400 \/ data.valence_change < 0 - 400
        new_v == Clamp(0 - 1000, 1000, s.v + data.valence_change)
        new_e == Clamp(0, 1000, s.e + data.energy_change)
        new_b == Clamp(0, 1000, s.b + data.bond_change - data.bond_scar)
    IN
    IF data.ok
    THEN /\ UpdateBotState(new_v, new_e, new_b, "None")
         /\ brainOut' = [micro_mood |-> "judged",
                         sensitivity |-> IF data.is_breaking_point \/ big
                                         THEN 8 ELSE 1]
    ELSE /\ botState' = botState
         /\ brainOut' = FallbackOut

\* (mutant) only the call and the parsing count as failures; a delta that is
\* not a number is taken as 0
MoodRaisesOnParseOnly(answer) ==
    CASE answer.kind = "unavailable" -> "ConnectionError"
      [] answer.kind = "not_json" -> "JSONDecodeError"
      [] answer.kind = "not_object" -> "AttributeError"
      [] OTHER -> "none"

\* What the try block of pre_process_intent meets before update_bot_state:
\* the failed call, json.loads, data.get on a non-object, and the arithmetic
\* on a delta that is not a number (abs() is skipped when is_breaking_point
\* is set, the sums are not)
MoodRaises(answer) ==
    CASE answer.kind = "unavailable" -> "ConnectionError"
      [] answer.kind = "not_json" -> "JSONDecodeError"
      [] answer.kind = "not_object" -> "AttributeError"
      [] OTHER ->
           IF /\ answer.valence_change.numeric
              /\ answer.energy_change.numeric
              /\ answer.bond_change.numeric
              /\ answer.bond_scar.numeric
           THEN "none" ELSE "TypeError"

\* pre_process_intent on the Judge's raw answer: a delta is a number n or
\* something else (a string, null)
PreProcessAnswer(answer) ==
    PreProcessIntent([ok |-> MoodRaises(answer) = "none",
                      valence_change |-> answer.valence_change.n,
                      energy_change |-> answer.energy_change.n,
                      bond_change |-> answer.bond_change.n,
                      bond_scar |-> answer.bond_scar.n,
                      is_breaking_point |-> answer.is_breaking_point])

\* apply_bond_scar(penalty): new_bond = max(0.0, b - penalty)
ApplyBondScar(penalty) ==
    /\ IF FitsNumeric(Max(0, GetBotState.b - penalty))
       THEN botState' = [botState EXCEPT
                           !.bond = StoreNumeric(Max(0, GetBotState.b - penalty))]
       ELSE botState' = botState
    /\ UNCHANGED brainOut

\* perform_reflection: writes the values it read back, with the new insight;
\* an empty insight or a failed generation writes nothing.
PerformReflection(insight) ==
    LET s == GetBotState
    IN  /\ IF insight # ""
           THEN UpdateBotState(s.v, s.e, s.b, insight)
           ELSE botState' = botState
        /\ UNCHANGED brainOut

\* Inputs (thousandths).  The Judge's deltas are unvalidated model output; the
\* prompt asks for -0.5..0.5, -0.2..0.2, -0.3..0.3 and a scar of 0..0.2.
MoodData ==
    [ok : {TRUE}, valence_change : {0 - 500, 3000},
     energy_change : {0 - 200, 200}, bond_change : {0 - 300, 300},
     bond_scar : {0, 200}, is_breaking_point : BOOLEAN]
    \cup [ok : {FALSE}, valence_change : {0}, energy_change : {0},
          bond_change : {0}, bond_scar : {0}, is_breaking_point : {FALSE}]

\* Raw answers of the mood Judge: a failed call, text that is not JSON, JSON
\* that is not an object, and objects whose deltas are numbers (thousandths)
\* or not
NotANumber == [numeric |-> FALSE, n |-> 0]
Number(n) == [numeric |-> TRUE, n |-> n]
MoodAnswers ==
    [kind : {"unavailable", "not_json", "not_object"},
     valence_change : {Number(0)}, energy_change : {Number(0)},
     bond_change : {Number(0)}, bond_scar : {Number(0)},
     is_breaking_point : {FALSE}]
    \cup [kind : {"object"},
          valence_change : {Number(0 - 500), Number(300), NotANumber},
          energy_change : {Number(0 - 200), NotANumber},
          bond_change : {Number(300), NotANumber},
          bond_scar : {Number(200), NotANumber},
          is_breaking_point : BOOLEAN]

SetterValences == {0 - 1500, 200}
SetterEnergies == {800, 1200}
SetterBonds == {300, 12000}
Penalties == {200, 0 - 500}

InitState ==
    /\ botState = FreshBotState
    /\ brainOut = FallbackOut

----------------------------------------------------------------------------
(* ProfileStore: MemoryManager.update_profile.  The stored confidence is a   *)
(* NUMERIC(3,2) (hundredths); the confidence passed in is the Judge's number *)
(* (thousandths).                                                            *)

\* (mutant) the threshold reached is enough
OverwritesAtThreshold(confidence, old_conf) == confidence >= old_conf * 9

\* confidence > (old_conf * 0.9).  The float product is not always the decimal
\* one (0.8 * 0.9 is 0.7200000000000001), but for stored confidences up to
\* 1.00 and arguments of up to three decimals the comparison comes out as in
\* exact arithmetic.
Overwrites(confidence, old_conf) == confidence > old_conf * 9

\* update_profile(key, value, confidence): the table after the call; a failing
\* statement (a confidence that does not fit the column) is logged and
\* nothing is written
UpdatedProfile(prof, key, value, confidence) ==
    IF key \in DOMAIN prof
    THEN IF Overwrites(confidence, prof[key].confidence)
            /\ FitsNumeric(confidence)
         THEN [prof EXCEPT ![key] = [value |-> value,
                                     confidence |-> StoreNumeric(confidence)]]
         ELSE prof
    ELSE IF FitsNumeric(confidence)
         THEN [k \in DOMAIN prof \cup {key} |->
                 IF k = key
                 THEN [value |-> value, confidence |-> StoreNumeric(confidence)]
                 ELSE prof[k]]
         ELSE prof

\* A call of update_profile, with its arguments kept
UpdateProfile(key, value, confidence) ==
    /\ profile' = UpdatedProfile(profile, key, value, confidence)
    /\ profileOut' = [key |-> key, value |-> value, confidence |-> confidence,
                      n |-> profileOut.n + 1]

\* Inputs: the keys and values the Judge extracts, its confidences (0.0-1.0)
ProfileKeys == {"name", "hobby"}
ProfileValues == {"A", "B"}
Confidences == {0, 710, 720, 725, 730, 800, 1000}

InitProfile ==
    /\ profile = <<>>
    /\ profileOut = [key |-> "", value |-> "", confidence |-> 0, n |-> 0]

----------------------------------------------------------------------------
(* SelfImageStore: MemoryManager.update_self_image.  strength is a           *)
(* NUMERIC(3,2) (hundredths); sensitivity is in tenths.                      *)

\* The traits init_db inserts
DefaultTraits ==
    [t \in {"Nghich ngom", "Hai huoc", "Tinh te", "Hay doi"} |->
       CASE t = "Nghich ngom" -> 70
         [] t = "Hai huoc" -> 80
         [] t = "Tinh te" -> 60
         [] t = "Hay doi" -> 40]

\* new_strength = (old_strength * (1 - sensitivity)) + (strength * sensitivity),
\* in thousandths
NewStrength(old_strength, strength, sensitivity) ==
    old_strength * (10 - sensitivity) + strength * sensitivity

\* update_self_image's SELECT, made by thread t: the row is read in a
\* transaction of its own (execute_query commits and returns the connection)
SelectStrength(t, trait, strength, sensitivity) ==
    /\ threads[t].pc = "idle"
    /\ threads' = [threads EXCEPT ![t] =
                     [pc |-> "selected", trait |-> trait,
                      strength |-> strength, sensitivity |-> sensitivity,
                      existing |-> trait \in DOMAIN selfImage,
                      old_strength |-> IF trait \in DOMAIN selfImage
                                       THEN selfImage[trait] ELSE NULL]]
    /\ UNCHANGED selfImage

\* update_self_image's write, made by thread t: the UPDATE with the strength
\* computed from what was read, or the INSERT (which fails on the primary key
\* when the trait has been inserted meanwhile; the error is logged)
WriteStrength(t) ==
    LET th == threads[t]
    IN  /\ th.pc = "selected"
        /\ threads' = [threads EXCEPT ![t].pc = "done"]
        /\ IF th.existing
           THEN selfImage' =
                   [selfImage EXCEPT ![th.trait] =
                      StoreNumeric(NewStrength(th.old_strength, th.strength,
                                               th.sensitivity))]
           ELSE IF th.trait \in DOMAIN selfImage
           THEN selfImage' = selfImage
           ELSE selfImage' =
                   [k \in DOMAIN selfImage \cup {th.trait} |->
                      IF k = th.trait THEN th.strength ELSE selfImage[k]]

\* update_self_image(trait, strength, sensitivity) run without interruption:
\* the table after the call
UpdatedSelfImage(img, trait, strength, sensitivity) ==
    IF trait \in DOMAIN img
    THEN [img EXCEPT ![trait] =
            StoreNumeric(NewStrength(img[trait], strength, sensitivity))]
    ELSE [k \in DOMAIN img \cup {trait} |->
            IF k = trait THEN strength ELSE img[k]]

\* Inputs: a trait of the table and a new one, the strengths the Judge gives
\* (0.0-1.0) and the sensitivities pre_process_intent returns (0.1, 0.8)
Traits == {"Tinh te", "Lay loi"}
Strengths == {0, 100}
Sensitivities == {1, 8}

\* The archiving threads that may be at update_self_image at the same time
ThreadIds == {1, 2}

IdleThread == [pc |-> "idle", trait |-> "", strength |-> 0, sensitivity |-> 0,
               existing |-> FALSE, old_strength |-> NULL]

InitSelfImage ==
    /\ selfImage = DefaultTraits
    /\ threads = [t \in ThreadIds |-> IdleThread]

----------------------------------------------------------------------------
(* EpisodicMemoryStore: MemoryManager.save_episode / decay_memories and     *)
(* MemoryDecayer                                                            *)

\* 3600 seconds (decay_memories' gate) and INTERVAL '7 days', in minutes
HourGate == 60
DecayGrace == 10080

RawContent == [kind |-> "raw", date |-> NULL, text |-> ""]

\* f"[CONSOLIDATED {target_date}] {summary_text}"
SummaryContent(target_date, summary_text) ==
    [kind |-> "summary", date |-> target_date, text |-> summary_text]

\* A row as INSERT INTO episodic_memory (content, importance, emotion_tone,
\* is_core) leaves it: timestamp is CURRENT_TIMESTAMP, access_count 0,
\* decay_locked FALSE, and last_accessed and day_date are NULL.
NewRow(content, importance, is_core) ==
    [content |-> content, importance |-> importance, is_core |-> is_core,
     created |-> now, last_accessed |-> NULL, access_count |-> 0,
     decay_locked |-> FALSE, day_date |-> NULL]

InsertRow(m, id, row) ==
    [i \in DOMAIN m \cup {id} |-> IF i = id THEN row ELSE m[i]]

\* save_episode(content, importance, emotion_tone, is_core)
SaveEpisode(content, importance, is_core) ==
    /\ nextMemId <= MaxRows
    /\ mem' = InsertRow(mem, nextMemId, NewRow(content, importance, is_core))
    /\ nextMemId' = nextMemId + 1
    /\ UNCHANGED lastDecayTs

\* (mutant) the boost is not capped
ReinforcedUncapped(row) ==
    [row EXCEPT !.last_accessed = now,
                !.importance = @ + 1,
                !.access_count = @ + 1]

\* SET last_accessed = NOW(), importance = LEAST(importance + 1, 10),
\*     access_count = access_count + 1
Reinforced(row) ==
    [row EXCEPT !.last_accessed = now,
                !.importance = Min(@ + 1, 10),
                !.access_count = @ + 1]

\* reinforce_memory(memory_id): UPDATE ... WHERE id = memory_id
ReinforceMemory(memory_id) ==
    /\ memory_id \in DOMAIN mem => mem[memory_id].access_count < MaxAccess
    /\ mem' = [i \in DOMAIN mem |->
                 IF i = memory_id THEN Reinforced(mem[i]) ELSE mem[i]]
    /\ UNCHANGED <<nextMemId, lastDecayTs>>

\* (mutant) the decay rule without the is_core guard
DecayRuleNoCore(row) ==
    /\ row.last_accessed # NULL
    /\ row.last_accessed < now - DecayGrace
    /\ row.importance > 1
    /\ row.importance <= 8
    /\ ~row.decay_locked

\* (mutant) the decay rule without the floor
DecayRuleNoFloor(row) ==
    /\ row.last_accessed # NULL
    /\ row.last_accessed < now - DecayGrace
    /\ row.importance <= 8
    /\ ~row.decay_locked
    /\ row.is_core = 0

\* The WHERE clause of run_decay_cycle's UPDATE (a NULL last_accessed makes the
\* comparison unknown, and the row is not selected)
DecayRule(row) ==
    /\ row.last_accessed # NULL
    /\ row.last_accessed < now - DecayGrace
    /\ row.importance > 1
    /\ row.importance <= 8
    /\ ~row.decay_locked
    /\ row.is_core = 0

\* run_decay_cycle()
RunDecayCycle ==
    /\ mem' = [i \in DOMAIN mem |->
                 IF DecayRule(mem[i])
                 THEN [mem[i] EXCEPT !.importance = @ - 1]
                 ELSE mem[i]]
    /\ UNCHANGED <<nextMemId, lastDecayTs>>

\* The WHERE clause of decay_memories' UPDATE
HourlyDecayRule(row) ==
    /\ row.is_core = 0
    /\ row.importance > 1
    /\ row.importance < 4

\* (mutant) the DELETE without the is_core guard
DeleteRuleNoCore(row) == row.importance <= 0

\* The WHERE clause of decay_memories' DELETE
DeleteRule(row) == row.importance <= 0 /\ row.is_core = 0

\* (mutant) decay_memories without its hour gate
DecayMemoriesUngated ==
    LET aged == [i \in DOMAIN mem |->
                   IF mem[i].is_core = 0 /\ mem[i].importance > 1
                      /\ mem[i].importance < 4
                   THEN [mem[i] EXCEPT !.importance = @ - 1]
                   ELSE mem[i]]
        kept == {i \in DOMAIN aged :
                   ~(aged[i].importance <= 0 /\ aged[i].is_core = 0)}
    IN  /\ mem' = [i \in kept |-> aged[i]]
        /\ lastDecayTs' = now
        /\ UNCHANGED nextMemId

\* decay_memories(): nothing within an hour of the last pass; otherwise the
\* UPDATE, the DELETE and the new last_decay_ts
DecayMemories ==
    IF now - lastDecayTs < HourGate
    THEN UNCHANGED <<mem, nextMemId, lastDecayTs>>
    ELSE LET aged == [i \in DOMAIN mem |->
                        IF HourlyDecayRule(mem[i])
                        THEN [mem[i] EXCEPT !.importance = @ - 1]
                        ELSE mem[i]]
             kept == {i \in DOMAIN aged : ~DeleteRule(aged[i])}
         IN  /\ mem' = [i \in kept |-> aged[i]]
             /\ lastDecayTs' = now
             /\ UNCHANGED nextMemId

\* A call of decay_memories, with the gate's verdict kept: ran is false when
\* the call returned at "if (now - last_decay) < 3600"
DecayMemoriesCall ==
    /\ DecayMemories
    /\ decayOut' = [called |-> TRUE, ran |-> ~(now - lastDecayTs < HourGate),
                    last_decay |-> lastDecayTs]

InitDecayOut == decayOut = [called |-> FALSE, ran |-> FALSE, last_decay |-> 0]

\* decay_locked is set by hand on chosen rows ("manually marked"); no code of
\* the repository writes it.
MarkDecayLocked(id) ==
    /\ id \in DOMAIN mem
    /\ ~mem[id].decay_locked
    /\ mem' = [mem EXCEPT ![id].decay_locked = TRUE]
    /\ UNCHANGED <<nextMemId, lastDecayTs>>

\* Migration v2.1, step 5: day_date = DATE(timestamp) WHERE day_date IS NULL
BackfillDayDate ==
    /\ mem' = [i \in DOMAIN mem |->
                 IF mem[i].day_date = NULL
                 THEN [mem[i] EXCEPT !.day_date = DateOf(mem[i].created)]
                 ELSE mem[i]]
    /\ UNCHANGED <<nextMemId, lastDecayTs>>

InitMem ==
    /\ mem = <<>>
    /\ nextMemId = 1
    /\ lastDecayTs = 0

----------------------------------------------------------------------------
(* Retrieval: MemoryManager.get_memories_by_context / get_important_memories *)
(* Rows of a result are named by their id (the code returns their content).  *)

\* The orderings of the ids in S
Orderings(S) ==
    {q \in [1..Cardinality(S) -> S] :
       \A i, j \in 1..Cardinality(S) : i # j => q[i] # q[j]}

\* ORDER BY is_core DESC, importance DESC: a may stand before b (ties are
\* left to the database)
RankedBefore(a, b) ==
    \/ mem[a].is_core > mem[b].is_core
    \/ mem[a].is_core = mem[b].is_core /\ mem[a].importance >= mem[b].importance

\* ORDER BY is_core DESC, importance DESC, id DESC
RankedBeforeById(a, b) ==
    \/ mem[a].is_core > mem[b].is_core
    \/ mem[a].is_core = mem[b].is_core /\ mem[a].importance > mem[b].importance
    \/ /\ mem[a].is_core = mem[b].is_core
       /\ mem[a].importance = mem[b].importance
       /\ a >= b

\* LIMIT %s
Limited(q, limit) == SubSeq(q, 1, Min(limit, Len(q)))

\* get_important_memories(limit)
GetImportantMemories(limit) ==
    LET q == CHOOSE o \in Orderings(DOMAIN mem) :
                 \A i, j \in 1..Len(o) : i < j => RankedBeforeById(o[i], o[j])
    IN  Limited(q, limit)

\* The SELECT of get_memories_by_context: the results it may give for the
\* rows `matched` (those whose content ILIKE one of the keywords)
KeywordResults(matched, limit) ==
    {Limited(o, limit) :
       o \in {q \in Orderings(matched) :
                \A i, j \in 1..Len(q) : i < j => RankedBefore(q[i], q[j])}}

\* get_memories_by_context(context_query, limit).  has_keywords: the query has
\* a word longer than 3 characters.  The function only reads episodic_memory.
GetMemoriesByContext(has_keywords, matched, limit) ==
    /\ \E rows \in KeywordResults(matched, limit) :
          recallOut' =
             [called |-> TRUE, keywords |-> has_keywords,
              matched |-> IF has_keywords THEN matched ELSE {},
              limit |-> limit, available |-> Cardinality(DOMAIN mem),
              important |-> GetImportantMemories(limit),
              result |-> IF ~has_keywords THEN GetImportantMemories(limit)
                         ELSE IF Len(rows) < 2
                         THEN rows \o GetImportantMemories(limit - Len(rows))
                         ELSE rows]
    /\ UNCHANGED <<mem, nextMemId, lastDecayTs>>

\* limit of the callers is 5 and 10; the model's stores are smaller
Limits == {1, 2, 3}

InitRecall ==
    recallOut = [called |-> FALSE, keywords |-> FALSE, matched |-> {},
                 limit |-> 0, available |-> 0, important |-> <<>>,
                 result |-> <<>>]

----------------------------------------------------------------------------
(* SessionManager and MemoryManager.save_message *)

\* gap_hours >= 4, in minutes
SessionGap == 240

\* _get_session_type(now.hour)
GetSessionType(hour) ==
    IF 5 <= hour /\ hour < 12 THEN "morning"
    ELSE IF 12 <= hour /\ hour < 17 THEN "afternoon"
    ELSE IF 17 <= hour /\ hour < 22 THEN "evening"
    ELSE "night"

HourOf(t) == (t % MinutesPerDay) \div MinutesPerHour

\* get_last_message_timestamp()
GetLastMessageTimestamp ==
    IF messages = <<>> THEN NULL ELSE messages[Len(messages)].timestamp

\* (mutant) the idle gap must be exceeded, not reached
ShouldStartAfterGap(last_message_time) ==
    IF last_message_time = NULL THEN TRUE
    ELSE IF Today > DateOf(last_message_time) THEN TRUE
    ELSE now - last_message_time > SessionGap

\* should_start_new_session(last_message_time)
ShouldStartNewSession(last_message_time) ==
    IF last_message_time = NULL THEN TRUE
    ELSE IF Today > DateOf(last_message_time) THEN TRUE
    ELSE now - last_message_time >= SessionGap

\* A call of should_start_new_session, with its argument and result kept
ShouldStartCall(last_message_time) ==
    boundaryOut' = [asked |-> TRUE, last |-> last_message_time,
                    result |-> ShouldStartNewSession(last_message_time)]

InitBoundary ==
    boundaryOut = [asked |-> FALSE, last |-> NULL, result |-> FALSE]

MessageCount(session_id) ==
    Cardinality({i \in 1..Len(messages) : messages[i].session_id = session_id})

\* end_session(session_id): end_time and message_count of that row; a failing
\* UPDATE is logged and the row stays as it was
EndSession(ss, session_id, end_ok) ==
    [i \in 1..Len(ss) |->
       IF i = session_id /\ end_ok
       THEN [ss[i] EXCEPT !.end_time = now,
                          !.message_count = MessageCount(session_id)]
       ELSE ss[i]]

\* start_session(): the sessions table after the call; the new session's id is
\* the length of the result
StartSession(end_ok) ==
    Append(IF currentSessionId # 0
           THEN EndSession(sessions, currentSessionId, end_ok)
           ELSE sessions,
           [start_time |-> now, end_time |-> NULL, day_date |-> Today,
            session_type |-> GetSessionType(HourOf(now)),
            message_count |-> 0])

\* start_session() called on its own
StartSessionCall(end_ok) ==
    /\ sessions' = StartSession(end_ok)
    /\ currentSessionId' = Len(sessions) + 1
    /\ UNCHANGED messages

\* SessionManager.__init__ on a restart: _load_current_session() takes the
\* open session started last (None when no session is open)
LoadCurrentSession ==
    LET open == {i \in 1..Len(sessions) : sessions[i].end_time = NULL}
    IN  /\ currentSessionId' =
              IF open = {} THEN 0
              ELSE CHOOSE i \in open :
                     \A j \in open :
                        \/ sessions[i].start_time > sessions[j].start_time
                        \/ /\ sessions[i].start_time = sessions[j].start_time
                           /\ i >= j
        /\ UNCHANGED <<sessions, messages>>

\* (mutant) the message always takes the manager's current session id
MessageSessionIdStale(fresh, ss) == currentSessionId

\* session_id = start_session() if a new session is due, else
\* self.session_mgr.current_session_id
MessageSessionId(fresh, ss) == IF fresh THEN Len(ss) ELSE currentSessionId

\* save_message(role, content)
SaveMessage(end_ok) ==
    LET fresh == ShouldStartNewSession(GetLastMessageTimestamp)
        ss == IF fresh THEN StartSession(end_ok) ELSE sessions
        session_id == MessageSessionId(fresh, ss)
    IN  /\ sessions' = ss
        /\ currentSessionId' = IF fresh THEN Len(ss) ELSE currentSessionId
        /\ messages' = Append(messages, [session_id |-> session_id,
                                         day_date |-> Today,
                                         timestamp |-> now])

InitChat ==
    /\ messages = <<>>
    /\ sessions = <<>>
    /\ currentSessionId = 0

----------------------------------------------------------------------------
(* DailyConsolidator and PatternDetector *)

\* lookback_days of the call in consolidate_day
LookbackDays == 7

\* (mutant) every candidate becomes a new row
SavePatternInsertOnly(ps, p) ==
    Append(ps, [description |-> p.description,
                confidence_score |-> p.confidence,
                frequency |-> 1, detected_at |-> now])

\* _save_pattern(pattern): frequency + 1 on the first row of that description,
\* a new row (frequency 1 by the column default) otherwise
SavePattern(ps, p) ==
    LET hits == {i \in 1..Len(ps) : ps[i].description = p.description}
    IN  IF hits # {}
        THEN LET k == CHOOSE i \in hits : \A j \in hits : i <= j
             IN  [ps EXCEPT ![k].frequency = @ + 1,
                            ![k].confidence_score = p.confidence,
                            ![k].detected_at = now]
        ELSE Append(ps, [description |-> p.description,
                         confidence_score |-> p.confidence,
                         frequency |-> 1, detected_at |-> now])

RECURSIVE SavePatterns(_, _)
SavePatterns(ps, found) ==
    IF found = <<>> THEN ps
    ELSE SavePatterns(SavePattern(ps, Head(found)), Tail(found))

\* detect_patterns(lookback_days) on the store m: nothing with fewer than two
\* consolidated memories or when the Judge fails
DetectPatterns(m, verdict) ==
    LET consolidated == {i \in DOMAIN m : m[i].content.kind = "summary"}
    IN  IF Min(Cardinality(consolidated), LookbackDays) < 2 \/ ~verdict.ok
        THEN patterns
        ELSE SavePatterns(patterns, verdict.patterns)

\* _get_messages_for_date(date)
MessagesForDate(date) ==
    {i \in 1..Len(messages) : messages[i].day_date = date}

\* (mutant) a plain INSERT: the row of an earlier call stays
InsertSummary(target_date, total, summary_text) ==
    dailySummaries
    \cup {[summary_date |-> target_date, total_messages |-> total,
           emotional_summary |-> summary_text]}

\* INSERT INTO daily_summaries ... ON CONFLICT (summary_date) DO UPDATE SET
\* emotional_summary, total_messages
UpsertSummary(target_date, total, summary_text) ==
    {s \in dailySummaries : s.summary_date # target_date}
    \cup {[summary_date |-> target_date, total_messages |-> total,
           emotional_summary |-> summary_text]}

\* Step 5: importance = 0 WHERE day_date = target AND importance < 8
\*         AND content != summary_content AND is_core = 0
ArchiveRule(row, target_date, summary_content) ==
    /\ row.day_date = target_date
    /\ row.importance < 8
    /\ row.content # summary_content
    /\ row.is_core = 0

\* consolidate_day(target_date).  summary_text is what summarize_day returned
\* (its own fallback text when the Judge fails), verdict the Judge's answer to
\* detect_patterns.
ConsolidateDay(target_date, summary_text, verdict) ==
    IF MessagesForDate(target_date) = {}
    THEN /\ consOut' = "false"
         /\ UNCHANGED <<mem, nextMemId, lastDecayTs, dailySummaries, patterns>>
    ELSE LET summary_content == SummaryContent(target_date, summary_text)
             saved == InsertRow(mem, nextMemId, NewRow(summary_content, 5, 0))
             archived == [i \in DOMAIN saved |->
                            IF ArchiveRule(saved[i], target_date,
                                           summary_content)
                            THEN [saved[i] EXCEPT !.importance = 0]
                            ELSE saved[i]]
         IN  /\ nextMemId <= MaxRows
             /\ dailySummaries' =
                    UpsertSummary(target_date,
                                  Cardinality(MessagesForDate(target_date)),
                                  summary_text)
             /\ mem' = archived
             /\ nextMemId' = nextMemId + 1
             /\ patterns' = DetectPatterns(archived, verdict)
             /\ consOut' = "true"
             /\ UNCHANGED lastDecayTs

\* consolidate_day(target_date) with the storage outcome of step 4:
\* episode_ok false is save_episode's INSERT raising, which save_episode logs
\* and swallows; consolidate_day goes on to step 5
ConsolidateDayStoring(target_date, summary_text, verdict, episode_ok) ==
    IF MessagesForDate(target_date) = {}
    THEN /\ consOut' = "false"
         /\ UNCHANGED <<mem, nextMemId, lastDecayTs, dailySummaries, patterns>>
    ELSE LET summary_content == SummaryContent(target_date, summary_text)
             saved == IF episode_ok
                      THEN InsertRow(mem, nextMemId,
                                     NewRow(summary_content, 5, 0))
                      ELSE mem
             archived == [i \in DOMAIN saved |->
                            IF ArchiveRule(saved[i], target_date,
                                           summary_content)
                            THEN [saved[i] EXCEPT !.importance = 0]
                            ELSE saved[i]]
         IN  /\ episode_ok => nextMemId <= MaxRows
             /\ dailySummaries' =
                    UpsertSummary(target_date,
                                  Cardinality(MessagesForDate(target_date)),
                                  summary_text)
             /\ mem' = archived
             /\ nextMemId' = IF episode_ok THEN nextMemId + 1 ELSE nextMemId
             /\ patterns' = DetectPatterns(archived, verdict)
             /\ consOut' = "true"
             /\ UNCHANGED lastDecayTs

\* (mutant) the guard without the look at daily_summaries
ShouldConsolidateWhenMessages == MessagesForDate(Today - 1) # {}

\* should_consolidate_yesterday()
ShouldConsolidateYesterday ==
    LET yesterday == Today - 1
        already_done == \E s \in dailySummaries : s.summary_date = yesterday
    IN  IF ~already_done
        THEN MessagesForDate(yesterday) # {}
        ELSE FALSE

\* A call of should_consolidate_yesterday, with its day and result kept
ShouldConsolidateCall ==
    guardOut' = [asked |-> TRUE, yesterday |-> Today - 1,
                 result |-> ShouldConsolidateYesterday]

InitGuard == guardOut = [asked |-> FALSE, yesterday |-> NULL, result |-> FALSE]

InitCons ==
    /\ dailySummaries = {}
    /\ patterns = <<>>
    /\ consOut = "none"

\* Inputs
EpisodeImportances == {0, 3, 8, 10}
FragmentImportances == {0, 3, 8}
TimeSteps == {30, DecayGrace}
ChatSteps == {30, SessionGap, MinutesPerDay}
PatternVerdicts ==
    {[ok |-> FALSE, patterns |-> <<>>],
     [ok |-> TRUE, patterns |-> <<[description |-> "habit", confidence |-> 8]>>]}
TargetDates == {d \in 0..Today : d = Today \/ MessagesForDate(d) # {}}
ArchiveTexts == {"quiet day"}
\* Answers of the Judge to detect_patterns: a failure, or one or two candidates
\* (confidence in tenths), the same description twice included
PatternCandidates ==
    {[description |-> "habit", confidence |-> 5],
     [description |-> "habit", confidence |-> 8],
     [description |-> "trigger", confidence |-> 8]}
DetectVerdicts ==
    {[ok |-> FALSE, patterns |-> <<>>]}
    \cup {[ok |-> TRUE, patterns |-> <<p>>] : p \in PatternCandidates}
    \cup {[ok |-> TRUE, patterns |-> <<p, q>>] :
            p \in PatternCandidates, q \in PatternCandidates}
SummaryTexts == {"quiet day", "long talk"}

----------------------------------------------------------------------------
(* The turn and its background tasks: GeminiFriend.send_message,            *)
(* DangDangBrain.post_process_archiving, MetaCognition.evaluate_response.   *)
(* An exception is named by its class; "none" is a normal return.           *)

\* The exception classes the tasks meet; all derive from Exception
Exceptions == {"ConnectionError", "JSONDecodeError", "AttributeError",
               "KeyError", "OperationalError"}

\* (mutant) the handler catches only the failed model call
ArchivingExceptOllamaOnly(exc) == exc = "ConnectionError"

\* post_process_archiving's "except Exception as e: pass"
ArchivingExcept(exc) == exc \in Exceptions

\* evaluate_response's "except Exception as e", which logs and returns None
EvaluationExcept(exc) == exc \in Exceptions

\* The "except Exception as e" of update_profile, update_self_image,
\* save_episode, decay_memories and _save_evaluation, which logs
StoreExcept(exc) == exc \in Exceptions

\* What leaves a try block that met exc, caught saying whether its handler
\* takes it
Escaping(exc, caught) == IF exc = "none" \/ caught THEN "none" ELSE exc

\* What a store method lets out when its statements fail (db_ok false)
StoreRaises(db_ok) ==
    IF db_ok THEN "none"
    ELSE Escaping("OperationalError", StoreExcept("OperationalError"))

\* What ollama.generate, json.loads and data.get let out for the Judge's
\* answer
JudgeRaises(data) ==
    CASE data.kind = "unavailable" -> "ConnectionError"
      [] data.kind = "not_json" -> "JSONDecodeError"
      [] data.kind = "not_object" -> "AttributeError"
      [] OTHER -> "none"

RECURSIVE ProfileUpdates(_, _, _)
\* for up in data.get('profile_updates', []):
\*     update_profile(up['key'], up['value'], up['confidence'])
ProfileUpdates(st, ups, db_ok) ==
    IF ups = <<>> \/ st.exc # "none" THEN st
    ELSE LET up == Head(ups)
         IN  IF ~({"key", "value", "confidence"} \subseteq DOMAIN up)
             THEN [st EXCEPT !.exc = "KeyError"]
             ELSE ProfileUpdates(
                    [st EXCEPT !.profile =
                                  IF db_ok
                                  THEN UpdatedProfile(@, up.key, up.value,
                                                      up.confidence)
                                  ELSE @,
                               !.exc = StoreRaises(db_ok)],
                    Tail(ups), db_ok)

RECURSIVE SelfImageUpdates(_, _, _, _)
\* for tr in data.get('self_image_updates', []):
\*     update_self_image(tr['trait'], tr['strength'], sensitivity=sensitivity)
SelfImageUpdates(st, trs, sensitivity, db_ok) ==
    IF trs = <<>> \/ st.exc # "none" THEN st
    ELSE LET tr == Head(trs)
         IN  IF ~({"trait", "strength"} \subseteq DOMAIN tr)
             THEN [st EXCEPT !.exc = "KeyError"]
             ELSE SelfImageUpdates(
                    [st EXCEPT !.selfImage =
                                  IF db_ok
                                  THEN UpdatedSelfImage(@, tr.trait,
                                                        tr.strength,
                                                        sensitivity)
                                  ELSE @,
                               !.exc = StoreRaises(db_ok)],
                    Tail(trs), sensitivity, db_ok)

\* ep = data.get('episode'); if ep: save_episode(ep['content'],
\* ep['importance'], ep['emotion'], ep.get('is_core', 0)).  eps is empty when
\* there is no episode.
EpisodeSaved(st, eps, db_ok) ==
    IF eps = <<>> \/ st.exc # "none" THEN st
    ELSE LET ep == Head(eps)
             is_core == IF "is_core" \in DOMAIN ep THEN ep.is_core ELSE 0
         IN  IF ~({"content", "importance", "emotion"} \subseteq DOMAIN ep)
             THEN [st EXCEPT !.exc = "KeyError"]
             ELSE IF db_ok
             THEN [st EXCEPT !.mem = InsertRow(@, st.nextMemId,
                                               NewRow(ep.content,
                                                      ep.importance, is_core)),
                             !.nextMemId = @ + 1]
             ELSE [st EXCEPT !.exc = StoreRaises(db_ok)]

\* self.memory.decay_memories() as the last statement of the try block
MemoriesDecayed(st, db_ok) ==
    IF st.exc # "none" THEN st
    ELSE IF ~db_ok THEN [st EXCEPT !.exc = StoreRaises(db_ok)]
    ELSE IF now - st.lastDecayTs < HourGate THEN st
    ELSE LET aged == [i \in DOMAIN st.mem |->
                        IF HourlyDecayRule(st.mem[i])
                        THEN [st.mem[i] EXCEPT !.importance = @ - 1]
                        ELSE st.mem[i]]
             kept == {i \in DOMAIN aged : ~DeleteRule(aged[i])}
         IN  [st EXCEPT !.mem = [i \in kept |-> aged[i]],
                        !.lastDecayTs = now]

\* The writes of post_process_archiving whose statements may fail
Writes == {"profile", "self_image", "episode", "decay"}

\* The storage failures of one run: none, or the database is out of reach
\* and every write fails
StorageFailures == {{}, Writes}

\* post_process_archiving(user_msg, ai_msg, time_ctx, vision_ctx, sensitivity)
\* run in its thread: data is the Judge's answer, failing the writes whose
\* statements fail.  archOut keeps the exception the try block met and what
\* left the function.
PostProcessArchiving(data, sensitivity, failing) ==
    LET st0 == [profile |-> profile, selfImage |-> selfImage, mem |-> mem,
                nextMemId |-> nextMemId, lastDecayTs |-> lastDecayTs,
                exc |-> JudgeRaises(data)]
        st1 == ProfileUpdates(st0, data.profile_updates,
                              "profile" \notin failing)
        st2 == SelfImageUpdates(st1, data.self_image_updates, sensitivity,
                                "self_image" \notin failing)
        st3 == EpisodeSaved(st2, data.episode, "episode" \notin failing)
        st4 == MemoriesDecayed(st3, "decay" \notin failing)
    IN  /\ profile' = st4.profile
        /\ selfImage' = st4.selfImage
        /\ mem' = st4.mem
        /\ nextMemId' = st4.nextMemId
        /\ lastDecayTs' = st4.lastDecayTs
        /\ archOut' = [task |-> "archive", met |-> st4.exc,
                       raised |-> Escaping(st4.exc, ArchivingExcept(st4.exc))]

\* What ollama.chat, the indexing of the response and json.loads let out
ChatRaises(answer) ==
    CASE answer = "unavailable" -> "ConnectionError"
      [] answer = "not_json" -> "JSONDecodeError"
      [] OTHER -> "none"

\* What _save_evaluation(scores) meets: a failing statement, or scores that
\* are not an object (scores.get)
SaveEvaluationMeets(answer, db_ok) ==
    IF ~db_ok THEN "OperationalError"
    ELSE IF answer = "not_object" /\ messages # <<>> THEN "AttributeError"
    ELSE "none"

\* evaluate_response(user_msg, ai_msg) run in its thread: answer is what the
\* model returned.  _save_evaluation adds a row when there is a model
\* message (send_message saves the reply before it starts the thread).
EvaluateResponse(answer, db_ok) ==
    LET exc == ChatRaises(answer)
        inner == SaveEvaluationMeets(answer, db_ok)
        met == IF exc # "none" THEN exc
               ELSE Escaping(inner, StoreExcept(inner))
    IN  /\ responseQuality' =
              IF exc = "none" /\ inner = "none" /\ messages # <<>>
              THEN responseQuality + 1 ELSE responseQuality
        /\ archOut' = [task |-> "evaluate", met |-> met,
                       raised |-> Escaping(met, EvaluationExcept(met))]

\* send_message, first statements: last_activity_time = time.time() and
\* waiting_state = 0
BeginTurn ==
    /\ turnOut.pc = "idle"
    /\ turnOut.n < MaxTurns
    /\ turnOut' = [turnOut EXCEPT !.pc = "begun", !.returned = ""]
    /\ lastActivityTime' = now
    /\ waitingState' = 0

\* send_message, end of step 2: check_for_persona_shift() and
\* refresh_session(...), which rebuild the chat session of the reply; when
\* they raise, the outer except returns the apology string
RefreshPersona(refresh_ok) ==
    /\ turnOut.pc = "listened"
    /\ turnOut' = IF refresh_ok THEN [turnOut EXCEPT !.pc = "refreshed"]
                  ELSE [pc |-> "idle", returned |-> "error",
                        n |-> turnOut.n + 1]

\* send_message, step 3: self.chat_session.send_message(actual_query); when
\* it raises, the outer except returns the apology string
ChatReply(chat_ok) ==
    /\ turnOut.pc = "refreshed"
    /\ turnOut' = IF chat_ok THEN [turnOut EXCEPT !.pc = "replied"]
                  ELSE [pc |-> "idle", returned |-> "error",
                        n |-> turnOut.n + 1]

\* (mutant) the threads are started as soon as the reply is there, before
\* the messages are saved
StartBackgroundBeforeSave ==
    /\ turnOut.pc = "replied"
    /\ spawned' = spawned \o <<[task |-> "archive",
                                sensitivity |-> brainOut.sensitivity],
                               [task |-> "evaluate",
                                sensitivity |-> brainOut.sensitivity]>>
    /\ turnOut' = [pc |-> "idle", returned |-> "reply", n |-> turnOut.n + 1]

\* send_message, steps 5 and 6: the two threads are started and ai_response
\* is returned; nothing joins the threads
StartBackground ==
    /\ turnOut.pc = "saved_model"
    /\ spawned' = spawned \o <<[task |-> "archive",
                                sensitivity |-> brainOut.sensitivity],
                               [task |-> "evaluate",
                                sensitivity |-> brainOut.sensitivity]>>
    /\ turnOut' = [pc |-> "idle", returned |-> "reply", n |-> turnOut.n + 1]

\* The sequence q without its i-th element
Without(q, i) == SubSeq(q, 1, i - 1) \o SubSeq(q, i + 1, Len(q))

\* Answers of the archiving Judge: a failed call, text that is not JSON, JSON
\* that is not an object, and objects whose items are complete or lack a key
ProfileItems == {<<>>,
                 <<[key |-> "name", value |-> "A", confidence |-> 800]>>,
                 <<[key |-> "name", value |-> "A"]>>}
TraitItems == {<<>>,
               <<[trait |-> "Tinh te", strength |-> 100]>>,
               <<[trait |-> "Tinh te"]>>}
EpisodeItems == {<<>>,
                 <<[content |-> RawContent, importance |-> 3,
                    emotion |-> "happy"]>>,
                 <<[content |-> RawContent, importance |-> 3]>>}
ArchiveAnswers ==
    [kind : {"unavailable", "not_json", "not_object"},
     profile_updates : {<<>>}, self_image_updates : {<<>>},
     episode : {<<>>}]
    \cup [kind : {"object"}, profile_updates : ProfileItems,
          self_image_updates : TraitItems, episode : EpisodeItems]

\* Answers of the evaluating model
EvaluationAnswers == {"unavailable", "not_json", "not_object", "scores"}

\* Inputs of a turn: the growth Judge's answers and the mood Judge's
TurnJudgeResponses ==
    {r \in JudgeResponses :
       ~r.ok \/ (r.verdict.xp_change = 10 /\ ~r.verdict.is_core_memory)}
TurnMoods ==
    {d \in MoodData :
       ~d.ok \/ (/\ d.valence_change = 0 - 500 /\ d.energy_change = 200
                 /\ d.bond_change = 300 /\ d.bond_scar = 0
                 /\ d.is_breaking_point)}

InitTurn ==
    /\ archOut = [task |-> "", met |-> "none", raised |-> "none"]
    /\ turnOut = [pc |-> "idle", returned |-> "", n |-> 0]
    /\ spawned = <<>>
    /\ responseQuality = 0

----------------------------------------------------------------------------
(* Heartbeat: GeminiFriend.attention_manager and _send_proactive_message.   *)
(* The windows of the loop are in seconds in the code, in minutes here.     *)

\* 300 < gap < 600, 600 < gap < 1800 and gap > 1800
CheckInAfter == 5
EscalateAfter == 10
GiveUpAfter == 30

\* _send_proactive_message(message, event_type, trigger_id): the message is
\* logged and saved and last_activity_time is set; when a statement of the
\* try block raises, the error is logged and last_activity_time stays
SendProactiveMessage(send_ok) ==
    IF send_ok
    THEN /\ SaveMessage(TRUE)
         /\ lastActivityTime' = now
    ELSE UNCHANGED <<chatVars, lastActivityTime>>

\* One iteration of attention_manager's loop: the branches on waiting_state
\* at the time of the check, then the time until the next check (the sleep
\* and whatever the calls of the iteration took), dt minutes.  trigger is
\* what the event scan and the spontaneous generator come up with, response15
\* whether get_15min_response returned a message.
AttentionManager(dt, trigger, response15, send_ok) ==
    LET gap == now - lastActivityTime
    IN  /\ now <= MaxHeartbeat
        /\ now' = now + dt
        /\ UNCHANGED ticks
        /\ CASE waitingState = 1 /\ CheckInAfter < gap /\ gap < EscalateAfter ->
                  /\ SendProactiveMessage(send_ok)
                  /\ waitingState' = 2
             [] waitingState = 1 /\ EscalateAfter < gap /\ gap < GiveUpAfter ->
                  /\ IF response15 THEN SendProactiveMessage(send_ok)
                     ELSE UNCHANGED <<chatVars, lastActivityTime>>
                  /\ waitingState' = 3
             [] /\ waitingState = 0
                /\ \/ trigger = "event"
                   \/ trigger = "spontaneous" /\ gap > GiveUpAfter ->
                  /\ SendProactiveMessage(send_ok)
                  /\ waitingState' = 1
             [] OTHER -> UNCHANGED <<chatVars, lastActivityTime, waitingState>>

\* Minutes from one check of the loop to the next: a few sleeps of 30 s, or
\* an iteration held up by its calls
HeartbeatSteps == {6, 12}
Triggers == {"none", "event", "spontaneous"}

----------------------------------------------------------------------------
(* save_message statement by statement.  The turn path and the heartbeat    *)
(* thread call it on the same MemoryManager and SessionManager; no lock is  *)
(* taken and every execute_query is a transaction of its own.               *)

SaveThreads == {"turn", "beat"}

\* pc: the statement the call is at; left: save_message calls the caller still
\* has to make; session_id: the local of save_message; then: the waiting_state
\* the heartbeat branch sets after its message was sent
IdleSaver == [pc |-> "idle", left |-> 0, session_id |-> 0, then |-> 0]

\* send_message up to its first save_message: the activity clock and
\* waiting_state are reset, then the user message and the reply are saved
TurnCall ==
    /\ savers["turn"].pc = "idle"
    /\ Len(messages) + savers["beat"].left + 2 <= MaxSaved
    /\ lastActivityTime' = now
    /\ waitingState' = 0
    /\ savers' = [savers EXCEPT !["turn"] = [IdleSaver EXCEPT !.pc = "read",
                                                             !.left = 2]]
    /\ UNCHANGED chatVars

\* The branch attention_manager takes at a check, up to the save_message of
\* _send_proactive_message; the 15 minute branch without a message only sets
\* waiting_state
BeatCall(trigger, response15) ==
    LET gap == now - lastActivityTime
        then == CASE waitingState = 1 /\ CheckInAfter < gap
                     /\ gap < EscalateAfter -> 2
                  [] waitingState = 1 /\ EscalateAfter < gap
                     /\ gap < GiveUpAfter -> 3
                  [] /\ waitingState = 0
                     /\ \/ trigger = "event"
                        \/ trigger = "spontaneous" /\ gap > GiveUpAfter -> 1
                  [] OTHER -> 0
    IN  /\ savers["beat"].pc = "idle"
        /\ then # 0
        /\ Len(messages) + savers["turn"].left + 1 <= MaxSaved
        /\ IF then = 3 /\ ~response15
           THEN /\ waitingState' = 3
                /\ UNCHANGED savers
           ELSE /\ savers' = [savers EXCEPT
                                !["beat"] = [IdleSaver EXCEPT !.pc = "read",
                                                              !.left = 1,
                                                              !.then = then]]
                /\ UNCHANGED waitingState
        /\ UNCHANGED <<chatVars, lastActivityTime>>

\* last_msg_time = self.get_last_message_timestamp() and the decision of
\* should_start_new_session(last_msg_time)
ReadLast(t) ==
    /\ savers[t].pc = "read"
    /\ savers' = [savers EXCEPT
                    ![t].pc = IF ShouldStartNewSession(GetLastMessageTimestamp)
                              THEN "end" ELSE "pick"]
    /\ UNCHANGED <<chatVars, waitingState, lastActivityTime>>

\* session_id = self.session_mgr.current_session_id
PickSession(t) ==
    /\ savers[t].pc = "pick"
    /\ savers' = [savers EXCEPT ![t].pc = "insert",
                                ![t].session_id = currentSessionId]
    /\ UNCHANGED <<chatVars, waitingState, lastActivityTime>>

\* start_session(), first half: if self.current_session_id:
\* self.end_session(self.current_session_id)
EndPrevious(t) ==
    /\ savers[t].pc = "end"
    /\ sessions' = IF currentSessionId # 0
                   THEN EndSession(sessions, currentSessionId, TRUE)
                   ELSE sessions
    /\ savers' = [savers EXCEPT ![t].pc = "create"]
    /\ UNCHANGED <<messages, currentSessionId, waitingState, lastActivityTime>>

\* start_session(), second half: the INSERT ... RETURNING session_id,
\* self.current_session_id = result[0] and the return
CreateSession(t) ==
    /\ savers[t].pc = "create"
    /\ sessions' = Append(sessions,
                          [start_time |-> now, end_time |-> NULL,
                           day_date |-> Today,
                           session_type |-> GetSessionType(HourOf(now)),
                           message_count |-> 0])
    /\ currentSessionId' = Len(sessions) + 1
    /\ savers' = [savers EXCEPT ![t].pc = "insert",
                                ![t].session_id = Len(sessions) + 1]
    /\ UNCHANGED <<messages, waitingState, lastActivityTime>>

\* The INSERT INTO messages and what the caller does when save_message
\* returns: send_message saves the reply next and returns after it;
\* _send_proactive_message sets last_activity_time and the branch of
\* attention_manager sets waiting_state
InsertMessage(t) ==
    /\ savers[t].pc = "insert"
    /\ messages' = Append(messages, [session_id |-> savers[t].session_id,
                                     day_date |-> Today,
                                     timestamp |-> now])
    /\ savers' = [savers EXCEPT
                    ![t] = IF savers[t].left > 1
                           THEN [IdleSaver EXCEPT !.pc = "read",
                                                  !.left = savers[t].left - 1]
                           ELSE IdleSaver]
    /\ IF t = "beat"
       THEN /\ lastActivityTime' = now
            /\ waitingState' = savers[t].then
       ELSE UNCHANGED <<waitingState, lastActivityTime>>
    /\ UNCHANGED <<sessions, currentSessionId>>

\* Minutes between two statements: a check of the heartbeat later, or the
\* idle gap of a session
SaverSteps == {6, SessionGap}

InitSavers == savers = [t \in SaveThreads |-> IdleSaver]

----------------------------------------------------------------------------
(* decay_memories statement by statement.  Each archiving thread calls it   *)
(* at the end of post_process_archiving; the threads of two turns may be at *)
(* it together.  Every execute_query is a transaction of its own.           *)

DecayThreads == {1, 2}

\* pc: the statement the call is at; last_decay and now: the locals of
\* decay_memories; ran: the call got to its UPDATE; aged: the rows that
\* UPDATE decremented
IdleDecayer == [pc |-> "idle", last_decay |-> 0, now |-> 0, ran |-> FALSE,
                aged |-> {}]

\* post_process_archiving up to its decay_memories call, with an episode
\* (save_episode) or without one
ArchiveEpisode(t, ep, importance, is_core) ==
    /\ decayers[t].pc = "idle"
    /\ IF ep THEN SaveEpisode(RawContent, importance, is_core)
       ELSE UNCHANGED <<mem, nextMemId, lastDecayTs>>
    /\ decayers' = [decayers EXCEPT ![t] = [IdleDecayer EXCEPT !.pc = "gate"]]

\* The SELECT of last_decay_ts, now = time.time() and the gate
DecayGate(t) ==
    /\ decayers[t].pc = "gate"
    /\ decayers' = [decayers EXCEPT
                      ![t].last_decay = lastDecayTs,
                      ![t].now = now,
                      ![t].pc = IF now - lastDecayTs < HourGate
                                THEN "idle" ELSE "update"]
    /\ UNCHANGED <<mem, nextMemId, lastDecayTs>>

\* UPDATE episodic_memory SET importance = importance - 1 WHERE ...
DecayUpdate(t) ==
    /\ decayers[t].pc = "update"
    /\ mem' = [i \in DOMAIN mem |->
                 IF HourlyDecayRule(mem[i])
                 THEN [mem[i] EXCEPT !.importance = @ - 1]
                 ELSE mem[i]]
    /\ decayers' = [decayers EXCEPT
                      ![t].pc = "delete",
                      ![t].ran = TRUE,
                      ![t].aged = {i \in DOMAIN mem : HourlyDecayRule(mem[i])}]
    /\ UNCHANGED <<nextMemId, lastDecayTs>>

\* DELETE FROM episodic_memory WHERE importance <= 0 AND is_core = 0
DecayDelete(t) ==
    /\ decayers[t].pc = "delete"
    /\ mem' = [i \in {j \in DOMAIN mem : ~DeleteRule(mem[j])} |-> mem[i]]
    /\ decayers' = [decayers EXCEPT ![t].pc = "stamp"]
    /\ UNCHANGED <<nextMemId, lastDecayTs>>

\* UPDATE memory_meta SET value = str(now) WHERE key = 'last_decay_ts', and
\* the return
DecayStamp(t) ==
    /\ decayers[t].pc = "stamp"
    /\ lastDecayTs' = decayers[t].now
    /\ decayers' = [decayers EXCEPT ![t].pc = "idle"]
    /\ UNCHANGED <<mem, nextMemId>>

\* importance of the episodes the archiving threads save
ArchivedImportances == {3, 5}

InitDecayers == decayers = [t \in DecayThreads |-> IdleDecayer]

InitHeart ==
    /\ waitingState = 0
    /\ lastActivityTime = now

InitClock ==
    /\ now = 0
    /\ ticks = 0

InitGrowth ==
    /\ rel = FreshRel
    /\ coreMemories = <<>>
    /\ growthOut = EmptyOut
    /\ calls = 0

\* The tables and call records of the background tasks
InitBg ==
    /\ InitDecayOut
    /\ InitGuard
    /\ InitProfile
    /\ InitSelfImage
    /\ InitTurn
    /\ InitHeart
    /\ InitSavers
    /\ InitDecayers

Init ==
    /\ InitClock /\ InitGrowth /\ InitState /\ InitMem /\ InitChat /\ InitCons
    /\ InitRecall /\ InitBoundary /\ InitBg

----------------------------------------------------------------------------
(* Specifications *)

Midnight ==
    /\ NextDay
    /\ UNCHANGED <<growthVars, stateVars, memVars, chatVars, consVars, recallVars,
                 boundaryVars, bgVars, threadVars>>

Interact ==
    /\ \E j \in Judgments :
          ProcessInteraction(10, [ok |-> TRUE, verdict |-> j])
    /\ UNCHANGED <<clockVars, stateVars, memVars, chatVars, consVars, recallVars,
                 boundaryVars, bgVars, threadVars>>

NextGrowth == Interact \/ Midnight

\* Verdicts far above the range the prompt asks for: the code applies no
\* range check, so one call can pay for any threshold
LargeXpChanges == {200, 1000}

InteractLarge ==
    /\ \E x \in LargeXpChanges :
          ProcessInteraction(10, [ok |-> TRUE,
                                  verdict |-> [numeric |-> TRUE,
                                               xp_change |-> x,
                                               is_core_memory |-> FALSE,
                                               sentiment |-> "Positive"]])
    /\ UNCHANGED <<clockVars, stateVars, memVars, chatVars, consVars, recallVars,
                 boundaryVars, bgVars, threadVars>>

\* Rows the relationship passes through on its way up from the fresh row:
\* every level with the active days its gates ask for, at least, and with
\* no XP or with XP waiting behind a gate
GateRows ==
    {r \in [level : 1..MaxFnLevel, current_xp : {0, 3000}, total_xp : {0},
            trust_score : {50}, days_active : {1, 2, 3, 6, 7, 29, 30},
            last_interaction_date : {MaxDay - 2}] :
       /\ r.level >= 4 => r.days_active >= 3
       /\ r.level >= 5 => r.days_active >= 7
       /\ r.level >= 10 => r.days_active >= 30}

InitGates ==
    /\ now = (MaxDay - 2) * MinutesPerDay
    /\ ticks = 0
    /\ rel \in GateRows
    /\ coreMemories = <<>>
    /\ growthOut = EmptyOut
    /\ calls = 0
    /\ InitState /\ InitMem /\ InitChat /\ InitCons /\ InitRecall
    /\ InitBoundary /\ InitBg

\* The relationship under generous verdicts, over the last days of the model
NextGates == InteractLarge \/ Midnight

SpecGates == InitGates /\ [][NextGates]_vars

SetState ==
    /\ \E v \in SetterValences, e \in SetterEnergies, b \in SetterBonds,
          r \in {"None", "insight"} : UpdateBotState(v, e, b, r)
    /\ UNCHANGED <<clockVars, growthVars, brainOut, memVars, chatVars, consVars, recallVars,
                 boundaryVars, bgVars, threadVars>>

PreProcess ==
    /\ \E d \in MoodData : PreProcessIntent(d)
    /\ UNCHANGED <<clockVars, growthVars, memVars, chatVars, consVars, recallVars,
                 boundaryVars, bgVars, threadVars>>

BondScar ==
    /\ \E p \in Penalties : ApplyBondScar(p)
    /\ UNCHANGED <<clockVars, growthVars, memVars, chatVars, consVars, recallVars,
                 boundaryVars, bgVars, threadVars>>

Reflect ==
    /\ \E i \in {"", "insight"} : PerformReflection(i)
    /\ UNCHANGED <<clockVars, growthVars, memVars, chatVars, consVars, recallVars,
                 boundaryVars, bgVars, threadVars>>

NextState == SetState \/ PreProcess \/ BondScar \/ Reflect

Listen ==
    /\ \E a \in MoodAnswers : PreProcessAnswer(a)
    /\ UNCHANGED <<clockVars, growthVars, memVars, chatVars, consVars, recallVars,
                 boundaryVars, bgVars, threadVars>>

\* pre_process_intent, turn after turn, on whatever the Judge answers
NextMood == Listen

SpecMood == Init /\ [][NextMood]_vars

SpecState == Init /\ [][NextState]_vars

Pass ==
    /\ \E dt \in TimeSteps : Tick(dt)
    /\ UNCHANGED <<growthVars, stateVars, memVars, chatVars, consVars, recallVars,
                 boundaryVars, bgVars, threadVars>>

Save ==
    /\ \E imp \in EpisodeImportances, core \in {0, 1} :
          SaveEpisode(RawContent, imp, core)
    /\ UNCHANGED <<clockVars, growthVars, stateVars, chatVars, consVars, recallVars,
                 boundaryVars, bgVars, threadVars>>

Reinforce ==
    /\ \E id \in 1..MaxRows : ReinforceMemory(id)
    /\ UNCHANGED <<clockVars, growthVars, stateVars, chatVars, consVars, recallVars,
                 boundaryVars, bgVars, threadVars>>

DecayCycle ==
    /\ RunDecayCycle
    /\ UNCHANGED <<clockVars, growthVars, stateVars, chatVars, consVars, recallVars,
                 boundaryVars, bgVars, threadVars>>

HourlyDecay ==
    /\ DecayMemories
    /\ UNCHANGED <<clockVars, growthVars, stateVars, chatVars, consVars, recallVars,
                 boundaryVars, bgVars, threadVars>>

Lock ==
    /\ \E id \in 1..MaxRows : MarkDecayLocked(id)
    /\ UNCHANGED <<clockVars, growthVars, stateVars, chatVars, consVars, recallVars,
                 boundaryVars, bgVars, threadVars>>

Backfill ==
    /\ BackfillDayDate
    /\ UNCHANGED <<clockVars, growthVars, stateVars, chatVars, consVars, recallVars,
                 boundaryVars, bgVars, threadVars>>

Message ==
    /\ Len(messages) < MaxMessages
    /\ \E end_ok \in BOOLEAN : SaveMessage(end_ok)
    /\ UNCHANGED <<clockVars, growthVars, stateVars, memVars, consVars, recallVars,
                 boundaryVars, bgVars, threadVars>>

\* A week and an hour pass: both decay passes are due again
PassWeek ==
    /\ Tick(DecayGrace + HourGate)
    /\ UNCHANGED <<growthVars, stateVars, memVars, chatVars, consVars, recallVars,
                 boundaryVars, bgVars, threadVars>>

SaveFragment ==
    /\ \E imp \in FragmentImportances, core \in {0, 1} :
          SaveEpisode(RawContent, imp, core)
    /\ UNCHANGED <<clockVars, growthVars, stateVars, chatVars, consVars, recallVars,
                 boundaryVars, bgVars, threadVars>>

Consolidate ==
    /\ \E d \in TargetDates, t \in ArchiveTexts, v \in PatternVerdicts :
          ConsolidateDay(d, t, v)
    /\ UNCHANGED <<clockVars, growthVars, stateVars, chatVars, recallVars,
                 boundaryVars, bgVars, threadVars>>

\* The episodic store under saving, recall and the two decay passes
NextMem ==
    \/ Pass \/ Save \/ Reinforce \/ DecayCycle \/ HourlyDecay \/ Lock

SpecMem == Init /\ [][NextMem]_vars

\* The same with the daily consolidation and what feeds it
NextArchive ==
    \/ PassWeek \/ SaveFragment \/ Reinforce \/ DecayCycle \/ HourlyDecay
    \/ Lock \/ Backfill \/ Message \/ Consolidate

SpecArchive == Init /\ [][NextArchive]_vars

SpecGrowth == Init /\ [][NextGrowth]_vars

Recall ==
    /\ \E k \in BOOLEAN, matched \in SUBSET DOMAIN mem, limit \in Limits :
          GetMemoriesByContext(k, matched, limit)
    /\ UNCHANGED <<clockVars, growthVars, stateVars, chatVars, consVars,
                 boundaryVars, bgVars, threadVars>>

\* The episodic store under saving and retrieval
NextRecall == Save \/ Reinforce \/ Recall

SpecRecall == Init /\ [][NextRecall]_vars

PassChat ==
    /\ \E dt \in ChatSteps : Tick(dt)
    /\ UNCHANGED <<growthVars, stateVars, memVars, chatVars, consVars,
                   recallVars, boundaryVars, bgVars, threadVars>>

Chat ==
    /\ Len(messages) < MaxChat
    /\ Len(sessions) < MaxSessions
    /\ \E end_ok \in BOOLEAN : SaveMessage(end_ok)
    /\ UNCHANGED <<clockVars, growthVars, stateVars, memVars, consVars,
                   recallVars, boundaryVars, bgVars, threadVars>>

OpenSession ==
    /\ Len(sessions) < MaxSessions
    /\ \E end_ok \in BOOLEAN : StartSessionCall(end_ok)
    /\ UNCHANGED <<clockVars, growthVars, stateVars, memVars, consVars,
                   recallVars, boundaryVars, bgVars, threadVars>>

Restart ==
    /\ LoadCurrentSession
    /\ UNCHANGED <<clockVars, growthVars, stateVars, memVars, consVars,
                   recallVars, boundaryVars, bgVars, threadVars>>

\* One SessionManager, its calls made one at a time
NextChat == PassChat \/ Chat \/ OpenSession \/ Restart

SpecChat == Init /\ [][NextChat]_vars

\* Minutes of the day at which should_start_new_session is asked, and how long
\* before that the last message was saved (none: NULL)
AskMinutes == {0, 1, 239, 240, 241, 1439}
AskGaps == {0, 1, 30, 239, 240, 241, 1439, 1440, 2000}
AskLasts == {NULL} \cup {now - g : g \in {h \in AskGaps : h <= now}}

InitAsk ==
    /\ now \in {d * MinutesPerDay + m : d \in 1..MaxDay, m \in AskMinutes}
    /\ ticks = 0
    /\ InitGrowth /\ InitState /\ InitMem /\ InitChat /\ InitCons
    /\ InitRecall /\ InitBoundary /\ InitBg

Ask ==
    /\ \E last \in AskLasts : ShouldStartCall(last)
    /\ UNCHANGED <<clockVars, growthVars, stateVars, memVars, chatVars,
                   consVars, recallVars, bgVars, threadVars>>

NextAsk == Ask

\* should_start_new_session as a function of the clock and its argument
SpecAsk == InitAsk /\ [][NextAsk]_vars

\* The level-up check at every level: the row is one the program reaches at
\* that level (under its threshold, every time gate long passed), on the last
\* day of the model.
LevelRows ==
    [level : 1..MaxFnLevel, current_xp : {0, 90}, total_xp : {0},
     trust_score : {50}, days_active : {30},
     last_interaction_date : {MaxDay - 1}]

InitLevels ==
    /\ now = (MaxDay - 1) * MinutesPerDay
    /\ ticks = 0
    /\ rel \in LevelRows
    /\ coreMemories = <<>>
    /\ growthOut = EmptyOut
    /\ calls = 0
    /\ InitState /\ InitMem /\ InitChat /\ InitCons /\ InitRecall
    /\ InitBoundary /\ InitBg

SpecLevels == InitLevels /\ [][NextGrowth]_vars

\* process_interaction with a Judge that may fail
Converse ==
    /\ \E w \in WordCounts, r \in JudgeResponses : ProcessInteraction(w, r)
    /\ UNCHANGED <<clockVars, stateVars, memVars, chatVars, consVars,
                   recallVars, boundaryVars, bgVars, threadVars>>

NextJudge == Converse \/ Midnight

SpecJudge == Init /\ [][NextJudge]_vars

\* Rows at both ends of the trust scale and at the floor of the XP counter, on
\* the last day of the model
TrustRows ==
    [level : {1}, current_xp : {0, 3}, total_xp : {3},
     trust_score : {0, 1, 50, 99, 100}, days_active : {1},
     last_interaction_date : {MaxDay - 1}]

InitTrust ==
    /\ now = (MaxDay - 1) * MinutesPerDay
    /\ ticks = 0
    /\ rel \in TrustRows
    /\ coreMemories = <<>>
    /\ growthOut = EmptyOut
    /\ calls = 0
    /\ InitState /\ InitMem /\ InitChat /\ InitCons /\ InitRecall
    /\ InitBoundary /\ InitBg

SpecTrust == InitTrust /\ [][NextGrowth]_vars

HourlyDecayCall ==
    /\ DecayMemoriesCall
    /\ UNCHANGED <<clockVars, growthVars, stateVars, chatVars, consVars,
                   recallVars, boundaryVars, guardOut, profile, profileOut,
                   selfImage, threads, archOut, turnOut, spawned,
                   responseQuality, threadVars>>

\* The episodic store under saving, recall and the two decay passes, every
\* decay_memories call leaving its record
NextDecay == Pass \/ SaveFragment \/ Reinforce \/ DecayCycle \/ HourlyDecayCall

SpecDecay == Init /\ [][NextDecay]_vars

Summarize ==
    /\ \E d \in TargetDates, t \in SummaryTexts, v \in PatternVerdicts :
          ConsolidateDay(d, t, v)
    /\ UNCHANGED <<clockVars, growthVars, stateVars, chatVars, recallVars,
                   boundaryVars, bgVars, threadVars>>

GuardCall ==
    /\ ShouldConsolidateCall
    /\ UNCHANGED <<clockVars, growthVars, stateVars, memVars, chatVars,
                   consVars, recallVars, boundaryVars, decayOut, profile,
                   profileOut, selfImage, threads, archOut, turnOut, spawned,
                   responseQuality, threadVars>>

\* save_message with every end_session write going through
Talk ==
    /\ Len(messages) < MaxTalk
    /\ SaveMessage(TRUE)
    /\ UNCHANGED <<clockVars, growthVars, stateVars, memVars, consVars,
                   recallVars, boundaryVars, bgVars, threadVars>>

\* The last days of the model
InitConsolidate ==
    /\ now = (MaxDay - 2) * MinutesPerDay
    /\ ticks = 0
    /\ InitGrowth /\ InitState /\ InitMem /\ InitChat /\ InitCons
    /\ InitRecall /\ InitBoundary /\ InitBg

\* The daily consolidation, its guard and what feeds them
NextConsolidate ==
    Midnight \/ Talk \/ SaveFragment \/ Backfill \/ Summarize \/ GuardCall

SpecConsolidate == InitConsolidate /\ [][NextConsolidate]_vars

\* Number of reports the rows of user_patterns stand for
RECURSIVE TotalFrequency(_)
TotalFrequency(ps) ==
    IF ps = <<>> THEN 0 ELSE Head(ps).frequency + TotalFrequency(Tail(ps))

SummarizeStoring ==
    /\ TotalFrequency(patterns) < MaxReports
    /\ \E d \in TargetDates, v \in PatternVerdicts, episode_ok \in BOOLEAN :
          ConsolidateDayStoring(d, "quiet day", v, episode_ok)
    /\ UNCHANGED <<clockVars, growthVars, stateVars, chatVars, recallVars,
                   boundaryVars, bgVars, threadVars>>

\* The daily consolidation with the summary episode stored or not
NextSummary == Midnight \/ Talk \/ SaveFragment \/ Backfill \/ SummarizeStoring

SpecSummary == InitConsolidate /\ [][NextSummary]_vars

\* detect_patterns(lookback_days=7) called on its own
Detect ==
    /\ TotalFrequency(patterns) < MaxReports
    /\ \E v \in DetectVerdicts : patterns' = DetectPatterns(mem, v)
    /\ UNCHANGED <<clockVars, growthVars, stateVars, memVars, chatVars,
                   dailySummaries, consOut, recallVars, boundaryVars, bgVars,
                   threadVars>>

\* The pattern detector after the daily consolidations that feed it
NextPatterns == Midnight \/ Talk \/ Summarize \/ Detect

SpecPatterns == InitConsolidate /\ [][NextPatterns]_vars

Learn ==
    /\ profileOut.n < MaxLearn
    /\ \E key \in ProfileKeys, value \in ProfileValues, c \in Confidences :
          UpdateProfile(key, value, c)
    /\ UNCHANGED <<clockVars, growthVars, stateVars, memVars, chatVars,
                   consVars, recallVars, boundaryVars, decayOut, guardOut,
                   selfImage, threads, archOut, turnOut, spawned,
                   responseQuality, threadVars>>

NextProfile == Learn

\* The profile table under update_profile calls
SpecProfile == Init /\ [][NextProfile]_vars

Select ==
    /\ \E t \in ThreadIds, trait \in Traits, strength \in Strengths,
          sensitivity \in Sensitivities :
          SelectStrength(t, trait, strength, sensitivity)
    /\ UNCHANGED <<clockVars, growthVars, stateVars, memVars, chatVars,
                   consVars, recallVars, boundaryVars, decayOut, guardOut,
                   profile, profileOut, archOut, turnOut, spawned,
                   responseQuality, threadVars>>

Write ==
    /\ \E t \in ThreadIds : WriteStrength(t)
    /\ UNCHANGED <<clockVars, growthVars, stateVars, memVars, chatVars,
                   consVars, recallVars, boundaryVars, decayOut, guardOut,
                   profile, profileOut, archOut, turnOut, spawned,
                   responseQuality, threadVars>>

\* Two archiving threads, each making one update_self_image call, their
\* statements interleaved as the database sees them
NextEma == Select \/ Write

SpecEma == Init /\ [][NextEma]_vars

TurnBegin ==
    /\ BeginTurn
    /\ UNCHANGED <<clockVars, growthVars, stateVars, memVars, chatVars,
                   consVars, recallVars, boundaryVars, decayOut, guardOut,
                   profile, profileOut, selfImage, threads, archOut, spawned,
                   responseQuality, savers, decayers>>

TurnGrow ==
    /\ turnOut.pc = "begun"
    /\ \E r \in TurnJudgeResponses : ProcessInteraction(10, r)
    /\ turnOut' = [turnOut EXCEPT !.pc = "grown"]
    /\ UNCHANGED <<clockVars, stateVars, memVars, chatVars, consVars,
                   recallVars, boundaryVars, decayOut, guardOut, profile,
                   profileOut, selfImage, threads, archOut, spawned,
                   responseQuality, threadVars>>

TurnListen ==
    /\ turnOut.pc = "grown"
    /\ \E d \in TurnMoods : PreProcessIntent(d)
    /\ turnOut' = [turnOut EXCEPT !.pc = "listened"]
    /\ UNCHANGED <<clockVars, growthVars, memVars, chatVars, consVars,
                   recallVars, boundaryVars, decayOut, guardOut, profile,
                   profileOut, selfImage, threads, archOut, spawned,
                   responseQuality, threadVars>>

TurnRefresh ==
    /\ \E refresh_ok \in BOOLEAN : RefreshPersona(refresh_ok)
    /\ UNCHANGED <<clockVars, growthVars, stateVars, memVars, chatVars,
                   consVars, recallVars, boundaryVars, decayOut, guardOut,
                   profile, profileOut, selfImage, threads, archOut, spawned,
                   responseQuality, threadVars>>

TurnReply ==
    /\ \E chat_ok \in BOOLEAN : ChatReply(chat_ok)
    /\ UNCHANGED <<clockVars, growthVars, stateVars, memVars, chatVars,
                   consVars, recallVars, boundaryVars, decayOut, guardOut,
                   profile, profileOut, selfImage, threads, archOut, spawned,
                   responseQuality, threadVars>>

TurnSaveUser ==
    /\ turnOut.pc = "replied"
    /\ SaveMessage(TRUE)
    /\ turnOut' = [turnOut EXCEPT !.pc = "saved_user"]
    /\ UNCHANGED <<clockVars, growthVars, stateVars, memVars, consVars,
                   recallVars, boundaryVars, decayOut, guardOut, profile,
                   profileOut, selfImage, threads, archOut, spawned,
                   responseQuality, threadVars>>

TurnSaveModel ==
    /\ turnOut.pc = "saved_user"
    /\ SaveMessage(TRUE)
    /\ turnOut' = [turnOut EXCEPT !.pc = "saved_model"]
    /\ UNCHANGED <<clockVars, growthVars, stateVars, memVars, consVars,
                   recallVars, boundaryVars, decayOut, guardOut, profile,
                   profileOut, selfImage, threads, archOut, spawned,
                   responseQuality, threadVars>>

TurnReturn ==
    /\ StartBackground
    /\ UNCHANGED <<clockVars, growthVars, stateVars, memVars, chatVars,
                   consVars, recallVars, boundaryVars, decayOut, guardOut,
                   profile, profileOut, selfImage, threads, archOut,
                   responseQuality, threadVars>>

Archive ==
    /\ \E i \in DOMAIN spawned :
          /\ spawned[i].task = "archive"
          /\ spawned' = Without(spawned, i)
          /\ \E data \in ArchiveAnswers, failing \in StorageFailures :
                /\ data.episode # <<>> => nextMemId <= MaxRows
                /\ PostProcessArchiving(data, spawned[i].sensitivity, failing)
    /\ UNCHANGED <<clockVars, growthVars, stateVars, chatVars, consVars,
                   recallVars, boundaryVars, decayOut, guardOut, profileOut,
                   threads, turnOut, responseQuality, threadVars>>

Evaluate ==
    /\ \E i \in DOMAIN spawned :
          /\ spawned[i].task = "evaluate"
          /\ spawned' = Without(spawned, i)
          /\ \E answer \in EvaluationAnswers, db_ok \in BOOLEAN :
                EvaluateResponse(answer, db_ok)
    /\ UNCHANGED <<clockVars, growthVars, stateVars, memVars, chatVars,
                   consVars, recallVars, boundaryVars, decayOut, guardOut,
                   profile, profileOut, selfImage, threads, turnOut,
                   threadVars>>

Heartbeat ==
    /\ Len(messages) < MaxBeatMessages
    /\ \E dt \in HeartbeatSteps, trigger \in Triggers, response15 \in BOOLEAN,
          send_ok \in BOOLEAN :
          AttentionManager(dt, trigger, response15, send_ok)
    /\ UNCHANGED <<growthVars, stateVars, memVars, consVars, recallVars,
                   boundaryVars, bgVars, savers, decayers>>

\* The heartbeat thread and the turns of the user, who answers or stays
\* silent
NextHeart ==
    \/ Heartbeat \/ TurnBegin \/ TurnGrow \/ TurnListen \/ TurnRefresh
    \/ TurnReply \/ TurnSaveUser \/ TurnSaveModel \/ TurnReturn

SpecHeart == Init /\ [][NextHeart]_vars

PassSavers ==
    /\ \E dt \in SaverSteps : Tick(dt)
    /\ UNCHANGED <<growthVars, stateVars, memVars, chatVars, consVars,
                   recallVars, boundaryVars, bgVars, threadVars>>

SaverTurn ==
    /\ TurnCall
    /\ UNCHANGED <<clockVars, growthVars, stateVars, memVars, consVars,
                   recallVars, boundaryVars, bgVars, decayers>>

SaverBeat ==
    /\ \E trigger \in Triggers, response15 \in BOOLEAN :
          BeatCall(trigger, response15)
    /\ UNCHANGED <<clockVars, growthVars, stateVars, memVars, consVars,
                   recallVars, boundaryVars, bgVars, decayers>>

SaverRead ==
    /\ \E t \in SaveThreads : ReadLast(t)
    /\ UNCHANGED <<clockVars, growthVars, stateVars, memVars, consVars,
                   recallVars, boundaryVars, bgVars, decayers>>

SaverPick ==
    /\ \E t \in SaveThreads : PickSession(t)
    /\ UNCHANGED <<clockVars, growthVars, stateVars, memVars, consVars,
                   recallVars, boundaryVars, bgVars, decayers>>

SaverEnd ==
    /\ \E t \in SaveThreads : EndPrevious(t)
    /\ UNCHANGED <<clockVars, growthVars, stateVars, memVars, consVars,
                   recallVars, boundaryVars, bgVars, decayers>>

SaverCreate ==
    /\ \E t \in SaveThreads : CreateSession(t)
    /\ UNCHANGED <<clockVars, growthVars, stateVars, memVars, consVars,
                   recallVars, boundaryVars, bgVars, decayers>>

SaverInsert ==
    /\ \E t \in SaveThreads : InsertMessage(t)
    /\ UNCHANGED <<clockVars, growthVars, stateVars, memVars, consVars,
                   recallVars, boundaryVars, bgVars, decayers>>

\* The turn path and the heartbeat thread saving messages, their statements
\* interleaved
NextSavers ==
    \/ PassSavers \/ SaverTurn \/ SaverBeat \/ SaverRead \/ SaverPick
    \/ SaverEnd \/ SaverCreate \/ SaverInsert

SpecSavers == Init /\ [][NextSavers]_vars

PassDecayers ==
    /\ Tick(HourGate)
    /\ UNCHANGED <<growthVars, stateVars, memVars, chatVars, consVars,
                   recallVars, boundaryVars, bgVars, threadVars>>

DecayerArchive ==
    /\ \E t \in DecayThreads, ep \in BOOLEAN, imp \in ArchivedImportances,
          core \in {0, 1} :
          /\ ~ep => imp = 3 /\ core = 0
          /\ ArchiveEpisode(t, ep, imp, core)
    /\ UNCHANGED <<clockVars, growthVars, stateVars, chatVars, consVars,
                   recallVars, boundaryVars, bgVars, waitingState,
                   lastActivityTime, savers>>

DecayerGate ==
    /\ \E t \in DecayThreads : DecayGate(t)
    /\ UNCHANGED <<clockVars, growthVars, stateVars, chatVars, consVars,
                   recallVars, boundaryVars, bgVars, waitingState,
                   lastActivityTime, savers>>

DecayerUpdate ==
    /\ \E t \in DecayThreads : DecayUpdate(t)
    /\ UNCHANGED <<clockVars, growthVars, stateVars, chatVars, consVars,
                   recallVars, boundaryVars, bgVars, waitingState,
                   lastActivityTime, savers>>

DecayerDelete ==
    /\ \E t \in DecayThreads : DecayDelete(t)
    /\ UNCHANGED <<clockVars, growthVars, stateVars, chatVars, consVars,
                   recallVars, boundaryVars, bgVars, waitingState,
                   lastActivityTime, savers>>

DecayerStamp ==
    /\ \E t \in DecayThreads : DecayStamp(t)
    /\ UNCHANGED <<clockVars, growthVars, stateVars, chatVars, consVars,
                   recallVars, boundaryVars, bgVars, waitingState,
                   lastActivityTime, savers>>

\* Two archiving threads at the end of post_process_archiving, their
\* statements interleaved, and the hours passing
NextDecayers ==
    \/ PassDecayers \/ DecayerArchive \/ DecayerGate \/ DecayerUpdate
    \/ DecayerDelete \/ DecayerStamp

SpecDecayers == Init /\ [][NextDecayers]_vars

\* The day after the relationship began, more than an hour after the last
\* decay pass
InitTurns ==
    /\ now = MinutesPerDay + HourGate
    /\ ticks = 0
    /\ InitGrowth /\ InitState /\ InitMem /\ InitChat /\ InitCons
    /\ InitRecall /\ InitBoundary /\ InitBg

\* Turns of the conversation, each a run of send_message, and the threads
\* they start, which run whenever the scheduler lets them
NextTurn ==
    \/ TurnBegin \/ TurnGrow \/ TurnListen \/ TurnRefresh \/ TurnReply
    \/ TurnSaveUser \/ TurnSaveModel \/ TurnReturn \/ Archive \/ Evaluate

SpecTurn == InitTurns /\ [][NextTurn]_vars

----------------------------------------------------------------------------
(* Claims about GrowthManager *)

\* A process_interaction call that got to its UPDATE: the step, seen as an action
Processed == calls' = calls + 1 /\ ~growthOut'.empty

\* The XP the call arrives at before the level-up check
XpAfterGain == Max(0, UpdateDaysActive(rel).current_xp + growthOut'.xp_gained)

\* The gate table as the specification lists it
GateTable(next_level) ==
    IF next_level = 3 THEN 1
    ELSE IF next_level = 4 THEN 3
    ELSE IF next_level = 5 THEN 7
    ELSE IF next_level = 10 THEN 30
    ELSE 0

\* C2: the persisted level never decreases, whatever the verdict and however
\* many days pass between calls.
C2_LevelMonotonic == [][rel'.level >= rel.level]_vars

\* C2 witness: a negative verdict was processed at a level above 1
C2_Witness ==
    /\ ~growthOut.empty
    /\ growthOut.xp_gained < 0
    /\ growthOut.level_before >= 2
    /\ rel.level = growthOut.level_before

\* C3: when the XP threshold of the next level is met but days_active is below
\* the next level's time gate, the level stays, level_up is false and the
\* required XP is not subtracted: current_xp is the XP after the gain.
C3_GateHoldsLevel ==
    [][(/\ Processed
        /\ XpAfterGain >= GetXpForNextLevel(rel.level)
        /\ rel'.days_active < GateTable(rel.level + 1))
       => (/\ rel'.level = rel.level
           /\ growthOut'.level_up = FALSE
           /\ growthOut'.current_level = rel.level
           /\ rel'.current_xp = XpAfterGain)]_vars

\* C3 witness: a call ended at level 3 with the threshold of level 4 met, fewer
\* than 3 active days, and the XP kept
C3_Witness ==
    /\ ~growthOut.empty
    /\ growthOut.level_before = 3
    /\ growthOut.new_xp >= 225
    /\ growthOut.days_active < 3
    /\ rel.level = 3
    /\ rel.current_xp = growthOut.new_xp

IsTruncated(q, level) ==
    /\ q * Pow(2, level - 1) <= 100 * Pow(3, level - 1)
    /\ 100 * Pow(3, level - 1) < (q + 1) * Pow(2, level - 1)

\* q is an integer nearest to 100 * 1.5^(level-1) (either one on a tie)
IsNearest(q, level) ==
    LET d == 2 * (q * Pow(2, level - 1) - 100 * Pow(3, level - 1))
    IN  d <= Pow(2, level - 1) /\ 0 - d <= Pow(2, level - 1)

\* C5 as stated: the required XP process_interaction compares against is the
\* integer nearest to 100 * 1.5^(L-1), at every level L.
C5_RequiredXpIsRounded ==
    ~growthOut.empty => IsNearest(growthOut.xp_needed, growthOut.level_before)

\* C5 amended: the required XP process_interaction compares against is
\* 100 * 1.5^(L-1) truncated toward zero, at every level L.
C5_RequiredXpIsTruncated ==
    ~growthOut.empty => IsTruncated(growthOut.xp_needed, growthOut.level_before)

\* C5 witness: a call at level 8, where truncation (1708) and rounding (1709)
\* differ
C5_Witness ==
    /\ ~growthOut.empty
    /\ growthOut.level_before = 8
    /\ growthOut.xp_needed = 1708

----------------------------------------------------------------------------
(* Claims about the StateStore *)

\* C1: after any write to BotState the stored valence is in [-1,1], energy in
\* [0,1] and bond in [0,1], whatever values were passed in.
C1_BotStateInRange ==
    /\ botState.valence >= 0 - 100 /\ botState.valence <= 100
    /\ botState.energy >= 0 /\ botState.energy <= 100
    /\ botState.bond >= 0 /\ botState.bond <= 100

----------------------------------------------------------------------------
(* Claims about the EpisodicMemoryStore *)

\* The is_core flag is set (the column is an INTEGER; 0 is "not core")
Core(row) == row.is_core # 0

\* C6: neither run_decay_cycle nor decay_memories changes the importance of a
\* row whose is_core flag is set (nor removes the row), whatever its
\* importance, last_accessed and decay_locked.
C6_DecayKeepsCoreImportance ==
    [][(DecayCycle \/ HourlyDecay)
       => \A i \in DOMAIN mem :
            Core(mem[i]) => /\ i \in DOMAIN mem'
                            /\ mem'[i].importance = mem[i].importance]_vars

\* C6 witness: decay_memories never made a pass, a recalled non-core row saved
\* at 3 is back at 3 (run_decay_cycle took the point of the recall away), and a
\* core row just as idle and in the rule's range still has its 4.
C6_Witness ==
    /\ lastDecayTs = 0
    /\ \E i \in DOMAIN mem :
          /\ mem[i].is_core = 0
          /\ mem[i].access_count = 1
          /\ mem[i].importance = 3
    /\ \E j \in DOMAIN mem :
          /\ mem[j].is_core = 1
          /\ mem[j].access_count = 1
          /\ mem[j].importance = 4
          /\ ~mem[j].decay_locked
          /\ mem[j].last_accessed < now - DecayGrace

\* C7: a row with decay_locked set keeps its importance (it is never lowered)
\* and keeps existing through every run_decay_cycle, decay_memories and
\* consolidate_day.
C7_LockedRowsAreImmune ==
    [][\A i \in DOMAIN mem :
          mem[i].decay_locked => /\ i \in DOMAIN mem'
                                 /\ mem'[i].importance >= mem[i].importance]_vars

\* C8: a row leaves episodic_memory only if its importance was <= 0 and it was
\* not core; a core row never leaves.
C8_DeleteOnlyFadedNonCore ==
    [][\A i \in DOMAIN mem :
          i \notin DOMAIN mem' => /\ mem[i].importance <= 0
                                  /\ ~Core(mem[i])]_vars

\* C8 witness: decay_memories has just made a pass that deleted a row, and a
\* core row of importance 0 is still there
C8_Witness ==
    /\ now > 0
    /\ lastDecayTs = now
    /\ \E i \in 1..(nextMemId - 1) : i \notin DOMAIN mem
    /\ \E j \in DOMAIN mem : mem[j].is_core = 1 /\ mem[j].importance = 0

IdleWeek(row) == row.last_accessed # NULL /\ now - row.last_accessed > 7 * 1440

Decayable(row) ==
    /\ IdleWeek(row)
    /\ 1 < row.importance /\ row.importance <= 8
    /\ row.decay_locked = FALSE
    /\ ~Core(row)

\* C10: run_decay_cycle takes exactly 1 from the importance of exactly the
\* rows the rule names and leaves every other row, and every other column, as
\* it was; no importance it lowers ends below 1.
C10_DecayCycleFrame ==
    [][DecayCycle
       => /\ DOMAIN mem' = DOMAIN mem
          /\ \A i \in DOMAIN mem :
               /\ Decayable(mem[i])
                  => mem'[i] = [mem[i] EXCEPT !.importance = mem[i].importance - 1]
               /\ ~Decayable(mem[i]) => mem'[i] = mem[i]
               /\ mem'[i].importance < mem[i].importance
                  => mem'[i].importance >= 1]_vars

\* C10 witness: decay_memories never made a pass, a recalled row saved at 3 is
\* back at 3, and an equally idle row above the rule's range (saved at 8,
\* recalled to 9) is untouched
C10_Witness ==
    /\ lastDecayTs = 0
    /\ \E i \in DOMAIN mem :
          /\ mem[i].is_core = 0
          /\ mem[i].access_count = 1
          /\ mem[i].importance = 3
          /\ IdleWeek(mem[i])
    /\ \E j \in DOMAIN mem :
          /\ mem[j].is_core = 0
          /\ mem[j].access_count = 1
          /\ mem[j].importance = 9
          /\ ~mem[j].decay_locked
          /\ IdleWeek(mem[j])

----------------------------------------------------------------------------
(* Claims about retrieval *)

\* C11: a call with no keyword match returns exactly
\* get_important_memories(limit); a call with one match returns that match
\* followed by limit - 1 backfilled rows; and every result has length
\* min(limit, number of rows in the store), never more than limit.
C11_RecallBackfill ==
    recallOut.called =>
       /\ recallOut.matched = {} => recallOut.result = recallOut.important
       /\ Cardinality(recallOut.matched) = 1
          => /\ Len(recallOut.result) >= 1
             /\ recallOut.result[1] \in recallOut.matched
       /\ Len(recallOut.result) <= recallOut.limit
       /\ Len(recallOut.result) = Min(recallOut.limit, recallOut.available)

\* C12: every row get_memories_by_context returns through keyword matching
\* has, after the call, access_count one higher, last_accessed = now and
\* importance = min(importance + 1, 10).
C12_RecallReinforces ==
    [][Recall =>
         \A i \in recallOut'.matched :
            /\ i \in DOMAIN mem'
            /\ mem'[i].access_count = mem[i].access_count + 1
            /\ mem'[i].last_accessed = now
            /\ mem'[i].importance = Min(mem[i].importance + 1, 10)]_vars

----------------------------------------------------------------------------
(* Claims about the SessionManager *)

\* C13: should_start_new_session(last) is true exactly when last is None, or
\* the calendar date of last is not today's, or at least 4 hours have passed
\* since last: 3h59m on the same day gives false, 4h00m gives true, and one
\* minute across midnight gives true.
C13_SessionBoundary ==
    boundaryOut.asked =>
       LET last == boundaryOut.last
       IN  /\ boundaryOut.result <=>
                 \/ last = NULL
                 \/ last \div 1440 # now \div 1440
                 \/ now - last >= 4 * 60
           /\ (last # NULL /\ now - last = 239 /\ last \div 1440 = now \div 1440)
              => ~boundaryOut.result
           /\ (last # NULL /\ now - last = 240) => boundaryOut.result
           /\ (last # NULL /\ now - last = 1 /\ now % 1440 = 0)
              => boundaryOut.result

\* C13 witness: asked exactly 4 hours after a message of the same day, the
\* answer was true
C13_Witness ==
    /\ boundaryOut.asked
    /\ boundaryOut.last # NULL
    /\ now - boundaryOut.last = 240
    /\ boundaryOut.last \div 1440 = now \div 1440
    /\ boundaryOut.result

\* The sessions with end_time NULL
OpenSessions == {i \in 1..Len(sessions) : sessions[i].end_time = NULL}

\* C14: at most one conversation session has end_time NULL, and once a
\* session has been opened exactly one has, through save_message and
\* start_session calls made one at a time, restarts and failing end_session
\* writes included.
C14_OneOpenSession ==
    /\ Cardinality(OpenSessions) <= 1
    /\ sessions # <<>> => Cardinality(OpenSessions) = 1

----------------------------------------------------------------------------
(* More claims about GrowthManager *)

\* C16: a process_interaction call adds exactly 1 to days_active and sets
\* last_interaction_date to today exactly when last_interaction_date is before
\* today, so further calls of the same day leave both alone; and the level-up
\* gate of that call is tested against the value after the increment.
C16_DaysActiveOncePerDay ==
    [][calls' = calls + 1 =>
         /\ IF rel.last_interaction_date # NULL
               /\ rel.last_interaction_date < now \div 1440
            THEN /\ rel'.days_active = rel.days_active + 1
                 /\ rel'.last_interaction_date = now \div 1440
            ELSE /\ rel'.days_active = rel.days_active
                 /\ rel'.last_interaction_date = rel.last_interaction_date
         /\ (~growthOut'.empty /\ XpAfterGain >= GetXpForNextLevel(rel.level))
            => (growthOut'.level_up
                  <=> rel'.days_active >= GateTable(rel.level + 1))]_vars

\* C16 witness: the only call so far was made on the second day and counted it
C16_Witness ==
    /\ calls = 1
    /\ now \div 1440 = 1
    /\ rel.days_active = 2
    /\ rel.last_interaction_date = 1
    /\ ~growthOut.empty
    /\ growthOut.days_active = 2

\* C17: when the Judge call fails or its output cannot be parsed,
\* process_interaction still returns a result, with xp_change 2 for a message
\* of more than 10 words and 1 otherwise, sentiment Neutral and no core
\* memory, and applies the usual XP, trust and level update with them.
C17_JudgeFallback ==
    [][(calls' = calls + 1 /\ ~growthOut'.judge_ok) =>
         LET xp == IF growthOut'.words > 10 THEN 2 ELSE 1
             before == UpdateDaysActive(rel)
         IN  /\ ~growthOut'.empty
             /\ growthOut'.xp_gained = xp
             /\ growthOut'.sentiment = "Neutral"
             /\ ~growthOut'.is_core_memory
             /\ coreMemories' = coreMemories
             /\ growthOut'.trust_change = 5
             /\ rel'.total_xp = before.total_xp + xp
             /\ rel'.trust_score =
                   StoreNumeric(Min(1000, before.trust_score * 10 + 5))
             /\ rel'.current_xp =
                   (IF growthOut'.level_up
                    THEN before.current_xp + xp - GetXpForNextLevel(rel.level)
                    ELSE before.current_xp + xp)
             /\ rel'.level =
                   (IF growthOut'.level_up THEN rel.level + 1 ELSE rel.level)
             /\ growthOut'.level_up <=>
                   /\ before.current_xp + xp >= GetXpForNextLevel(rel.level)
                   /\ rel'.days_active >= GateTable(rel.level + 1)]_vars

\* C17 witness: the Judge failed on a message of 11 words and 2 XP were given
C17_Witness ==
    /\ ~growthOut.empty
    /\ ~growthOut.judge_ok
    /\ growthOut.words = 11
    /\ growthOut.xp_gained = 2
    /\ rel.total_xp >= 2

\* C18: trust_change is +0.02 for xp_change >= 5, +0.005 for 0 < xp_change < 5,
\* 0 for xp_change = 0 and -0.01 for every negative xp_change, those at or
\* below -5 included; no verdict gives -0.05.
C18_TrustBands ==
    ~growthOut.empty =>
       /\ growthOut.xp_gained >= 5 => growthOut.trust_change = 20
       /\ (growthOut.xp_gained > 0 /\ growthOut.xp_gained < 5)
          => growthOut.trust_change = 5
       /\ growthOut.xp_gained = 0 => growthOut.trust_change = 0
       /\ growthOut.xp_gained < 0 => growthOut.trust_change = 0 - 10
       /\ growthOut.trust_change # 0 - 50

\* C18 witness: a verdict of -5 changed trust by -0.01
C18_Witness ==
    /\ ~growthOut.empty
    /\ growthOut.xp_gained = 0 - 5
    /\ growthOut.trust_change = 0 - 10

\* C19: current_xp is never negative and trust_score is always within [0,1];
\* every call persists max(0, current_xp + xp_change), less the required XP on
\* a level-up only.
C19_XpAndTrustInRange ==
    /\ [](/\ rel.current_xp >= 0
          /\ rel.trust_score >= 0
          /\ rel.trust_score <= 100)
    /\ [][Processed =>
            rel'.current_xp =
               (IF growthOut'.level_up
                THEN XpAfterGain - GetXpForNextLevel(rel.level)
                ELSE XpAfterGain)]_vars

\* C19 witness: a verdict of -5 met an XP counter below 5 and a trust score at
\* the bottom; both stayed at 0
C19_Witness ==
    /\ ~growthOut.empty
    /\ growthOut.xp_gained = 0 - 5
    /\ growthOut.new_xp = 0
    /\ rel.current_xp = 0
    /\ rel.trust_score = 0

\* C20: a verdict with is_core_memory true makes process_interaction persist
\* one core_memories row whose related_level is the relationship level at that
\* call.
C20_CoreMemoryPersisted ==
    [][(Processed /\ growthOut'.is_core_memory) =>
         /\ Len(coreMemories') = Len(coreMemories) + 1
         /\ coreMemories'[Len(coreMemories')].related_level = rel.level]_vars

----------------------------------------------------------------------------
(* Claims about the hour-gated decay *)

\* C21: a decay_memories call made less than one hour after the pass recorded
\* in last_decay_ts leaves episodic_memory and last_decay_ts exactly as they
\* were, and last_decay_ts changes only in a decay_memories call that made a
\* pass, which sets it to the time of that call.
C21_DecayIdempotentWithinHour ==
    /\ [][(HourlyDecayCall /\ now - lastDecayTs < 60)
          => (mem' = mem /\ lastDecayTs' = lastDecayTs /\ ~decayOut'.ran)]_vars
    /\ [][lastDecayTs' # lastDecayTs
          => (/\ HourlyDecayCall
              /\ decayOut'.ran
              /\ now - lastDecayTs >= 60
              /\ lastDecayTs' = now)]_vars

\* C21 witness: a pass was made, and a call half an hour later returned at the
\* gate with a row still at 2 that a further pass would have lowered
C21_Witness ==
    /\ decayOut.called
    /\ ~decayOut.ran
    /\ decayOut.last_decay = lastDecayTs
    /\ lastDecayTs > 0
    /\ now - lastDecayTs = 30
    /\ \E i \in DOMAIN mem : mem[i].is_core = 0 /\ mem[i].importance = 2

\* C22: whenever the hour gate lets decay_memories make its pass, the rows it
\* lowers and the importances it leaves are those of run_decay_cycle on the
\* same store: exactly the rows idle for more than 7 days with
\* 1 < importance <= 8, not decay_locked and not core lose 1.
C22_HourlyDecayIsDecayCycle ==
    [][(HourlyDecayCall /\ decayOut'.ran)
       => \A i \in DOMAIN mem \cap DOMAIN mem' :
             mem'[i].importance =
                (IF Decayable(mem[i]) THEN mem[i].importance - 1
                 ELSE mem[i].importance)]_vars

----------------------------------------------------------------------------
(* Claims about save_episode and the daily consolidation *)

\* C23: save_episode appends one row, timestamped now, whose day_date is the
\* day of the call, so that the rows selected by day_date = today include it.
C23_SaveEpisodeStampsDay ==
    [][SaveFragment
       => /\ DOMAIN mem' = DOMAIN mem \cup {nextMemId}
          /\ mem'[nextMemId].created = now
          /\ mem'[nextMemId].day_date = now \div 1440
          /\ nextMemId \in {i \in DOMAIN mem' :
                              mem'[i].day_date = now \div 1440}]_vars

\* A consolidate_day(d) call that returned true, seen as a step (the tests
\* that tell such a step from every other stand first)
ConsolidatedDay(d, t, v) ==
    /\ consOut' = "true"
    /\ nextMemId' = nextMemId + 1
    /\ nextMemId \in DOMAIN mem'
    /\ mem'[nextMemId].content = SummaryContent(d, t)
    /\ ConsolidateDay(d, t, v)

\* C24: after consolidate_day(D) returns true, every episodic memory created
\* on day D with importance < 8 and is_core unset, other than the new summary
\* row, has importance 0; rows with importance >= 8 or is_core set are as they
\* were; the new summary row is there with importance 5; and no row was
\* deleted.
C24_ConsolidateArchivesDay ==
    [][\A d \in 0..MaxDay, t \in SummaryTexts, v \in PatternVerdicts :
         ConsolidatedDay(d, t, v)
         => /\ DOMAIN mem' = DOMAIN mem \cup {nextMemId}
            /\ mem'[nextMemId].importance = 5
            /\ mem'[nextMemId].content.kind = "summary"
            /\ \A i \in DOMAIN mem :
                 /\ (/\ mem[i].created \div 1440 = d
                     /\ mem[i].importance < 8
                     /\ ~Core(mem[i]))
                    => mem'[i].importance = 0
                 /\ (mem[i].importance >= 8 \/ Core(mem[i]))
                    => mem'[i] = mem[i]]_vars

\* The dates that have a daily_summaries row
SummaryDates == {s.summary_date : s \in dailySummaries}

\* C25: after any number of consolidate_day(D) calls there is exactly one
\* daily_summaries row for D, holding the summary text and the message count
\* of the latest call, and the rows of other dates are as they were.
C25_SummaryUpsertedPerDay ==
    /\ [](\A r1, r2 \in dailySummaries :
            r1.summary_date = r2.summary_date => r1 = r2)
    /\ [][\A d \in 0..MaxDay, t \in SummaryTexts, v \in PatternVerdicts :
            ConsolidatedDay(d, t, v)
            => /\ [summary_date |-> d,
                   total_messages |->
                      Cardinality({i \in 1..Len(messages) :
                                     messages[i].day_date = d}),
                   emotional_summary |-> t] \in dailySummaries'
               /\ \A r \in dailySummaries' :
                    r.summary_date # d => r \in dailySummaries
               /\ \A r \in dailySummaries :
                    r.summary_date # d => r \in dailySummaries']_vars

\* C25 witness: a day was consolidated twice, the second time with one more
\* message and another text; its one row holds the second call's values, next
\* to the row of another day
C25_Witness ==
    /\ DOMAIN mem = {1, 2}
    /\ mem[1].content.kind = "summary"
    /\ mem[2].content.kind = "summary"
    /\ mem[1].content.date = mem[2].content.date
    /\ mem[1].content.text = "quiet day"
    /\ mem[2].content.text = "long talk"
    /\ Len(messages) = 2
    /\ messages[2].timestamp >= mem[1].created
    /\ dailySummaries =
          {[summary_date |-> mem[2].content.date, total_messages |-> 2,
            emotional_summary |-> "long talk"]}

\* C26: should_consolidate_yesterday() is true exactly when yesterday has at
\* least one message and no daily_summaries row; a consolidate_day(D) that
\* returned true leaves a row for D and no row ever goes away, so after it the
\* guard is false on every call made while D is yesterday.
C26_ConsolidateGuard ==
    /\ [][GuardCall
          => /\ guardOut'.yesterday = now \div 1440 - 1
             /\ guardOut'.result <=>
                   /\ \E i \in 1..Len(messages) :
                         messages[i].day_date = now \div 1440 - 1
                   /\ \A r \in dailySummaries :
                         r.summary_date # now \div 1440 - 1]_vars
    /\ [][\A d \in 0..MaxDay, t \in SummaryTexts, v \in PatternVerdicts :
            ConsolidatedDay(d, t, v) => d \in SummaryDates']_vars
    /\ [][SummaryDates \subseteq SummaryDates']_vars
    /\ [][(GuardCall /\ (now \div 1440 - 1) \in SummaryDates)
          => ~guardOut'.result]_vars

\* C26 witness: yesterday has a message and was consolidated today, and the
\* guard, asked after that, said no
C26_Witness ==
    /\ guardOut.asked
    /\ ~guardOut.result
    /\ guardOut.yesterday = now \div 1440 - 1
    /\ \E i \in 1..Len(messages) : messages[i].day_date = guardOut.yesterday
    /\ guardOut.yesterday \in SummaryDates
    /\ \E i \in DOMAIN mem :
          /\ mem[i].content.kind = "summary"
          /\ mem[i].content.date = guardOut.yesterday
          /\ mem[i].created \div 1440 = now \div 1440

----------------------------------------------------------------------------
(* Claims about the PatternDetector *)

\* The rows of ps with that description, the frequency they record (that of
\* the first) and the number of candidates of a run with that description
RowsOf(ps, desc) == {i \in 1..Len(ps) : ps[i].description = desc}

FrequencyOf(ps, desc) ==
    IF RowsOf(ps, desc) = {} THEN 0
    ELSE ps[CHOOSE i \in RowsOf(ps, desc) :
               \A j \in RowsOf(ps, desc) : i <= j].frequency

Reported(found, desc) ==
    Cardinality({k \in 1..Len(found) : found[k].description = desc})

\* What a run that saved the candidates `found` did to user_patterns: each
\* description reported has one row, its frequency raised by the number of
\* reports (from 0 for a new row), with the confidence of the last report and
\* the time of the run; every other row is as it was.
SavedAll(found) ==
    \A desc \in {"habit", "trigger"} :
       LET n == Reported(found, desc)
       IN  /\ FrequencyOf(patterns', desc) = FrequencyOf(patterns, desc) + n
           /\ n > 0 =>
                \E i \in RowsOf(patterns', desc), k \in 1..Len(found) :
                   /\ found[k].description = desc
                   /\ \A l \in 1..Len(found) :
                         found[l].description = desc => l <= k
                   /\ patterns'[i].confidence_score = found[k].confidence
                   /\ patterns'[i].detected_at = now
           /\ n = 0 =>
                \A i \in RowsOf(patterns, desc) :
                   i \in 1..Len(patterns') /\ patterns'[i] = patterns[i]

Consolidated(m) == {i \in DOMAIN m : m[i].content.kind = "summary"}

\* C27: a detect_patterns run raises by 1 the frequency of the row with the
\* candidate's description and overwrites its confidence and timestamp, or
\* inserts a row with frequency 1 when there is none; so no two rows of
\* user_patterns share a description, and a row's frequency is the number of
\* times its description was reported.
C27_PatternUpsert ==
    /\ [](\A i, j \in 1..Len(patterns) :
            patterns[i].description = patterns[j].description => i = j)
    /\ [][\A v \in DetectVerdicts :
            (/\ v.ok
             /\ Cardinality(Consolidated(mem)) >= 2
             /\ patterns' = DetectPatterns(mem, v)
             /\ Detect)
            => SavedAll(v.patterns)]_vars
    /\ [][\A d \in 0..MaxDay, t \in SummaryTexts, v \in PatternVerdicts :
            (/\ ConsolidatedDay(d, t, v)
             /\ v.ok
             /\ Cardinality(Consolidated(mem')) >= 2)
            => SavedAll(v.patterns)]_vars
    /\ [][patterns' # patterns => (Detect \/ Summarize)]_vars

\* C27 witness: one description was reported three times and another once
C27_Witness ==
    /\ Len(patterns) = 2
    /\ patterns[1].description = "habit"
    /\ patterns[1].frequency = 3
    /\ patterns[1].confidence_score = 5
    /\ patterns[2].description = "trigger"
    /\ patterns[2].frequency = 1

----------------------------------------------------------------------------
(* Claims about the ProfileStore *)

\* C28: update_profile(key, value, c) on an entry of confidence c_old
\* overwrites value and confidence exactly when c > 0.9 * c_old and otherwise
\* leaves the entry as it was (against 0.8, 0.71 does not overwrite and 0.73
\* does); on a missing key it inserts the entry; no other entry changes.
C28_ProfileOverwriteThreshold ==
    [][Learn =>
         LET key == profileOut'.key
             value == profileOut'.value
             c == profileOut'.confidence
             stored == (c + 5) \div 10
         IN  /\ DOMAIN profile' = DOMAIN profile \cup {key}
             /\ \A k \in DOMAIN profile : k # key => profile'[k] = profile[k]
             /\ key \notin DOMAIN profile
                => profile'[key] = [value |-> value, confidence |-> stored]
             /\ key \in DOMAIN profile
                => /\ 10 * c > 9 * (10 * profile[key].confidence)
                      => profile'[key] = [value |-> value,
                                          confidence |-> stored]
                   /\ ~(10 * c > 9 * (10 * profile[key].confidence))
                      => profile'[key] = profile[key]
                   /\ (profile[key].confidence = 80 /\ c = 710)
                      => profile'[key] = profile[key]
                   /\ (profile[key].confidence = 80 /\ c = 730)
                      => profile'[key] = [value |-> value,
                                          confidence |-> 73]]_vars

\* C28 witness: an entry held at 0.8 met an update of another value at exactly
\* 0.72 and kept its value
C28_Witness ==
    /\ profileOut.n >= 2
    /\ profileOut.key = "name"
    /\ profileOut.value = "B"
    /\ profileOut.confidence = 720
    /\ "name" \in DOMAIN profile
    /\ profile["name"] = [value |-> "A", confidence |-> 80]

----------------------------------------------------------------------------
(* Claims about the SelfImageStore *)

\* The strength of a trait after the update of thread t is applied to cur
\* (NULL: no row yet)
Applied(cur, t) ==
    IF cur = NULL THEN threads[t].strength
    ELSE StoreNumeric(NewStrength(cur, threads[t].strength,
                                  threads[t].sensitivity))

StartStrength(trait) ==
    IF trait \in DOMAIN DefaultTraits THEN DefaultTraits[trait] ELSE NULL

\* C29: when two archiving threads have each run update_self_image on the
\* same trait, the stored strength is what the two updates give applied one
\* after the other, in one order or the other.
C29_NoLostStrengthUpdate ==
    (/\ threads[1].pc = "done"
     /\ threads[2].pc = "done"
     /\ threads[1].trait = threads[2].trait)
    => LET trait == threads[1].trait
           start == StartStrength(trait)
       IN  /\ trait \in DOMAIN selfImage
           /\ selfImage[trait] \in {Applied(Applied(start, 1), 2),
                                    Applied(Applied(start, 2), 1)}

----------------------------------------------------------------------------
(* Claims about the background tasks *)

\* C30: post_process_archiving and evaluate_response never let an exception
\* out, whatever the Judge answers and whichever writes fail; a thread that
\* ends leaves what send_message returns alone, and a turn whose reply was
\* generated returns that reply.
C30_BackgroundNeverRaises ==
    /\ [](archOut.raised = "none")
    /\ [][Len(spawned') < Len(spawned) => turnOut' = turnOut]_vars
    /\ [][(turnOut.pc \in {"replied", "saved_user", "saved_model"}
           /\ turnOut'.pc = "idle") => turnOut'.returned = "reply"]_vars

\* The archiving of a turn met a KeyError after its profile write, nothing
\* left the thread, and the second turn returned its reply
C30_Witness ==
    /\ archOut.task = "archive"
    /\ archOut.met = "KeyError"
    /\ archOut.raised = "none"
    /\ "name" \in DOMAIN profile
    /\ turnOut.n = 2
    /\ turnOut.pc = "idle"
    /\ turnOut.returned = "reply"

\* C37: a process_interaction call raises the level by at most one; when the
\* XP after the gain covers the thresholds of the next two levels and the gate
\* of the next level is open, the level still rises by one only and the XP
\* left over (at least the next threshold) stays in current_xp.
C37_OneLevelPerCall ==
    [][Processed
       => (/\ rel'.level <= rel.level + 1
           /\ (/\ XpAfterGain >= GetXpForNextLevel(rel.level)
                                 + GetXpForNextLevel(rel.level + 1)
               /\ rel'.days_active >= GateTable(rel.level + 1))
              => (/\ rel'.level = rel.level + 1
                  /\ rel'.current_xp = XpAfterGain
                                       - GetXpForNextLevel(rel.level)
                  /\ rel'.current_xp >= GetXpForNextLevel(rel'.level)))]_vars

\* C37 witness: a call that began at level 1 arrived at 290 XP, enough for
\* levels 2 and 3, and ended at level 2 with 190 XP
C37_Witness ==
    /\ ~growthOut.empty
    /\ growthOut.level_before = 1
    /\ growthOut.new_xp >= GetXpForNextLevel(1) + GetXpForNextLevel(2)
    /\ growthOut.level_up
    /\ rel.level = 2
    /\ rel.current_xp >= GetXpForNextLevel(2)

\* C38: in every state reached through process_interaction calls, from the
\* fresh row or any row on the way up that meets the gates, level >= 4 has
\* days_active >= 3, level >= 5 has days_active >= 7 and level >= 10 has
\* days_active >= 30; days_active never decreases.
C38_GatesHoldInEveryState ==
    /\ [](/\ rel.level >= 4 => rel.days_active >= 3
          /\ rel.level >= 5 => rel.days_active >= 7
          /\ rel.level >= 10 => rel.days_active >= 30)
    /\ [][rel'.days_active >= rel.days_active]_vars

\* C38 witness: level 10 reached on the thirtieth active day by a call that
\* found the XP waiting behind the gate since the day before
C38_Witness ==
    /\ rel.level = 10
    /\ rel.days_active = 30
    /\ growthOut.level_up
    /\ growthOut.level_before = 9
    /\ calls >= 2

----------------------------------------------------------------------------
(* Claims about pre_process_intent *)

\* The Judge's answer is a failure or malformed: no answer, not JSON, not an
\* object, or a delta that is not a number
Malformed(a) ==
    \/ a.kind # "object"
    \/ ~a.valence_change.numeric
    \/ ~a.energy_change.numeric
    \/ ~a.bond_change.numeric
    \/ ~a.bond_scar.numeric

----------------------------------------------------------------------------
(* Claims about memories that are never retrieved *)

\* C32: a decay pass takes 1 from the importance of every non-core, unlocked
\* row with importance in (1, 8] that was never retrieved and was created
\* more than 7 days ago: the idle time of such a row counts from its creation.
C32_UnretrievedMemoryDecays ==
    [][DecayCycle
       => \A i \in DOMAIN mem :
            (/\ mem[i].is_core = 0
             /\ ~mem[i].decay_locked
             /\ mem[i].importance > 1
             /\ mem[i].importance <= 8
             /\ mem[i].access_count = 0
             /\ mem[i].created < now - DecayGrace)
            => mem'[i].importance = mem[i].importance - 1]_vars

----------------------------------------------------------------------------
(* Claims about the heartbeat *)

\* An iteration of the heartbeat loop (the only step that moves the clock
\* under SpecHeart)
Beat == now' # now

\* C36: in waiting state 1 a check between 5 and 10 minutes of silence sends
\* the check-in and moves to state 2; in state 2 a check between 10 and 30
\* minutes of silence takes the escalation step and moves to state 3; a user
\* message sets the state to 0 from any state.
C36_WaitingProgression ==
    /\ [][(/\ Beat
           /\ waitingState = 1
           /\ CheckInAfter < now - lastActivityTime
           /\ now - lastActivityTime < EscalateAfter)
          => waitingState' = 2]_vars
    /\ [][(/\ Beat
           /\ waitingState = 2
           /\ EscalateAfter < now - lastActivityTime
           /\ now - lastActivityTime < GiveUpAfter)
          => waitingState' = 3]_vars
    /\ [][TurnBegin => waitingState' = 0]_vars

----------------------------------------------------------------------------
(* Claims about the order of a turn *)

\* The steps of send_message in the order of the claim; a turn may end early
\* with the apology when the refresh or the reply raises
TurnOrder ==
    {<<"idle", "begun">>, <<"begun", "grown">>, <<"grown", "listened">>,
     <<"listened", "refreshed">>, <<"refreshed", "replied">>,
     <<"replied", "saved_user">>, <<"saved_user", "saved_model">>,
     <<"saved_model", "idle">>, <<"listened", "idle">>,
     <<"refreshed", "idle">>}

\* C31: the steps of a turn come in the fixed order days_active update and
\* growth processing, persona refresh, reply, user message, model reply,
\* background threads: the relationship row changes only in the growth step,
\* which counts the day before it checks the level; the messages grow by one
\* in each of the two persistence steps and nowhere else; the threads are
\* started only in the last step, when both messages are there.
C31_TurnOrder ==
    /\ [][turnOut'.pc # turnOut.pc
          => <<turnOut.pc, turnOut'.pc>> \in TurnOrder]_vars
    /\ [][rel' # rel
          => (/\ turnOut.pc = "begun" /\ turnOut'.pc = "grown"
              /\ rel'.days_active = UpdateDaysActive(rel).days_active
              /\ ~growthOut'.empty
                 => growthOut'.days_active = rel'.days_active)]_vars
    /\ [][messages' # messages
          => (/\ Len(messages') = Len(messages) + 1
              /\ \/ turnOut.pc = "replied" /\ turnOut'.pc = "saved_user"
                 \/ turnOut.pc = "saved_user"
                    /\ turnOut'.pc = "saved_model")]_vars
    /\ [][Len(spawned') > Len(spawned)
          => (/\ turnOut.pc = "saved_model"
              /\ Len(messages) >= 2
              /\ messages' = messages)]_vars

\* C31 witness: the second turn has begun and counted its growth while the
\* archiving thread of the first turn has not run yet; the first turn counted
\* the new day and saved its two messages
C31_Witness ==
    /\ turnOut.n = 1
    /\ turnOut.pc = "grown"
    /\ rel.days_active = 2
    /\ Len(messages) = 2
    /\ \E i \in DOMAIN spawned : spawned[i].task = "archive"

----------------------------------------------------------------------------
(* Claims about save_message called from two threads *)

\* C34: with the heartbeat thread and the turn path saving messages on the
\* same managers, their statements interleaved and no write failing, at most
\* one conversation session has end_time NULL in every reachable state.
C34_OneOpenSessionInterleaved ==
    Cardinality({i \in DOMAIN sessions : sessions[i].end_time = NULL}) <= 1

\* C35: every closed session's message_count is the number of messages that
\* carry its session_id, in every reachable state: no message is attributed
\* to a session after it was closed.
C35_ClosedCountMatches ==
    \A i \in DOMAIN sessions :
       sessions[i].end_time # NULL
       => sessions[i].message_count = MessageCount(i)

----------------------------------------------------------------------------
(* Claims about decay_memories called from two threads *)

\* C39: when several archiving threads call decay_memories after the hour
\* gate has expired, the pass is applied at most once: no memory is
\* decremented by two calls that passed the gate on the same last_decay_ts.
C39_DecayAppliedOnce ==
    \A t, u \in DecayThreads :
       (/\ t # u
        /\ decayers[t].ran /\ decayers[u].ran
        /\ decayers[t].last_decay = decayers[u].last_decay)
       => decayers[t].aged \cap decayers[u].aged = {}

----------------------------------------------------------------------------
(* Claims about consolidate_day when the summary is not stored *)

\* C40: consolidate_day sets the importance of a day's fragments to 0 only if
\* the summary memory of that day was persisted: a step that zeroes a row
\* leaves a summary row of the row's day in the store.
C40_ArchiveOnlyWithSummary ==
    [][\A i \in DOMAIN mem :
          (/\ i \in DOMAIN mem'
           /\ mem[i].importance # 0
           /\ mem'[i].importance = 0)
          => \E j \in DOMAIN mem' :
                /\ mem'[j].content.kind = "summary"
                /\ mem'[j].content.date = mem[i].day_date]_vars

====
